---- MODULE Spec2Model ----
(***************************************************************************)
(* Distraction-detection-and-intervention engine of goose-ai-buddy:        *)
(*   - SessionManager      (python-service/session_manager.py)             *)
(*   - ContentAnalyzer     (python-service/content_analyzer.py)            *)
(*   - DistractionTracker  (python-service/distraction_tracker.py)         *)
(*   - GooseClient         (python-service/goose_integration.py)           *)
(*   - the request handlers of main.py, simple_main.py and                 *)
(*     simple_main_clean.py                                                *)
(* Spec             : the session machine and its timers; the time unit   *)
(*                    of datetime_now is 1 minute.                         *)
(* OrchestratorSpec : the /analyze/content handler of main.py in every     *)
(*                    phase of the session machine.                        *)
(* ClassifierSpec   : ContentAnalyzer.analyze_content and the user's       *)
(*                    overrides.                                           *)
(* HookSpec         : the session machine with registered callbacks.       *)
(* StatsSpec        : daily_stats.json across restarts and dates.          *)
(* TrackerSpec      : tracker and the /analyze-distraction handler of      *)
(*                    simple_main.py; time unit of time_time = 1 second.   *)
(* ScoreSpec        : analyze_content on snapshots of every score and on   *)
(*                    wrongly typed ones, at two clock hours.              *)
(* AnalysisSpec     : the /analyze-distraction handlers of simple_main.py  *)
(*                    and simple_main_clean.py on every agent reply.       *)
(* AgentSpec        : callers waiting for the goose process of run_task.   *)
(* SessionThreadSpec: start_focus_session on several threads.              *)
(* TrackerThreadSpec: the tracker's methods on several threads.            *)
(* SessionRaceSpec  : a timer callback and end_current_session on two      *)
(*                    threads.                                             *)
(* StaleTimerSpec   : several focus sessions with the timers left pending. *)
(* DrainSpec        : the session machine after the commands have stopped. *)
(* GestureSpec      : GestureRecognizer._handle_gesture and its sequences  *)
(*                    (python-service/gesture_recognition.py); time unit   *)
(*                    of time_time = 1 second.                             *)
(* Confidences are integers in percent (0.95 is 95).                       *)
(***************************************************************************)
EXTENDS Integers, Sequences, FiniteSets, TLC

VARIABLES
    datetime_now,        \* datetime.now(), in minutes since process start
    today,               \* calendar date of datetime.now(), a day number
    stats_at_midnight,   \* daily_stats as it was when today began in this process
    current_state,       \* SessionManager.current_state: "idle" | "focus" | "break"
    session_start_time,  \* SessionManager.session_start_time, None when unset
    session_duration,    \* SessionManager.session_duration (minutes)
    timers,              \* started threading.Timer objects not yet fired or cancelled, in creation order
    timer_live,          \* TRUE iff SessionManager.session_timer is still pending (then it is the last of timers)
    daily_stats,         \* SessionManager.daily_stats
    stats_file,          \* daily_stats.json: NoFile or [date, stats]
    session_callbacks,   \* SessionManager.session_callbacks: event -> registered callbacks
    allowed_sites,       \* ContentAnalyzer.user_patterns['allowed_sites']
    blocked_sites,       \* ContentAnalyzer.user_patterns['blocked_sites']
    patterns_file,       \* user_patterns.json: NoPatternsFile or [exists, allowed_sites, blocked_sites]
    time_time,           \* time.time(), in seconds since process start
    distractions,        \* DistractionTracker.distractions
    analysis_enabled,    \* DistractionTracker.analysis_enabled
    op,                  \* the operation that ran last
    ret,                 \* what it returned, or the exception it raised
    calls,               \* language-agent calls it made
    status,              \* the dictionary the last get_status returned
    pruned,              \* stored events it dropped from self.distractions
    response,            \* the HTTP response of the last request handler
    hook_log,            \* the callbacks it invoked, each with the fields the callback saw
    request,             \* the page snapshot the last classification was asked about
    clock_hour,          \* datetime.now().hour as the last classification read it
    pref_call,           \* the last add_user_preference call, if it ran last
    goose_process,       \* the subprocess.run call of GooseClient._run_command in flight
    threads,             \* the calls running on threads: each one's position and locals
    gesture_history,     \* GestureRecognizer.gesture_history
    last_sequence_trigger_time,  \* GestureRecognizer.last_sequence_trigger_time
    last_gesture_time,   \* GestureRecognizer.last_gesture_time: gesture -> time, None when absent
    latest_gesture,      \* GestureRecognizer.latest_gesture, NoGesture for None
    url_analysis_calls   \* calls of _trigger_url_analysis_action the last handled gesture made

sessionVars == <<current_state, session_start_time, session_duration, timers,
                 timer_live, daily_stats, stats_file, session_callbacks>>
prefVars    == <<allowed_sites, blocked_sites, patterns_file>>
trackerVars == <<time_time, distractions, analysis_enabled>>
callVars    == <<op, ret, calls, status, pruned, response, hook_log, request,
                 clock_hour, pref_call, goose_process>>
obsVars     == <<callVars, threads>>
dayVars     == <<today, stats_at_midnight>>
gestureVars == <<gesture_history, last_sequence_trigger_time, last_gesture_time,
                 latest_gesture, url_analysis_calls>>
vars == <<datetime_now, dayVars, gestureVars, sessionVars, prefVars, trackerVars, obsVars>>

(***************************************************************************)
(* Bounds of the model                                                     *)
(***************************************************************************)
MaxMinutes == 6          \* datetime_now stops here
MaxSessions == 1         \* start_focus_session is not taken with more sessions completed
MaxTimers == 2           \* start operations are not taken with more pending timers
MaxBlocked == 1          \* cap of distractions_blocked in the guards
MaxScore == 3            \* keyword scores of a request are drawn from 0..MaxScore
MaxSeconds == 900        \* time_time stops here
TimeStep == 300          \* seconds per tick of time_time
MaxEvents == 3           \* log operations are not taken with more stored events
MaxDay == 2              \* today stops here
MaxStatsMinutes == 1     \* datetime_now stops here in StatsSpec
MaxHooks == 2            \* register_callback is not taken with more registered callbacks
MaxHookMinutes == 1      \* datetime_now stops here in HookSpec
MaxHookTimers == 1       \* start operations of HookSpec and StatsSpec are not taken with more pending timers
MaxThreads == 2          \* request-handling and callback threads running at once
MaxCompleted == 3        \* start_focus_session of StaleTimerSpec is not taken with more sessions completed
MaxStaleMinutes == 2     \* datetime_now stops here in StaleTimerSpec
MaxGestureSeconds == 10  \* time_time stops here in GestureSpec
MaxCommandMinutes == 2   \* session commands of DrainSpec are not taken from this minute on

None == -1
NoResponse == [status |-> "none", code |-> 0, decision |-> "none",
               confidence |-> 0, action |-> "absent", is_distraction |-> FALSE,
               analysis |-> "none"]
NoStatus == [total_distractions |-> 0, recent_distractions |-> 0]
Durations == {1, 2}
DefaultBreak == 5

ZeroStats == [focus_minutes |-> 0, break_minutes |-> 0,
              sessions_completed |-> 0, distractions_blocked |-> 0]
NoFile == [date |-> None, stats |-> ZeroStats]

(***************************************************************************)
(* SessionManager, as functions of the object's fields                     *)
(*   s = [current_state, session_start_time, session_duration, timers,     *)
(*        timer_live, daily_stats, stats_file, session_callbacks,          *)
(*        hook_log, raised, ret]                                           *)
(* t is datetime.now() and d the date of datetime.now().                   *)
(* A registered callback is known by what it does when called: "returns"   *)
(* or "raises" (an Exception). raised is TRUE while an exception           *)
(* propagates out of the method; the statements after the raising call are *)
(* then skipped.                                                           *)
(***************************************************************************)
HookEvents == {"session_start", "session_end", "break_start", "break_end"}
NoCallbacks == [event \in HookEvents |-> <<>>]

register_callback(s, event, callback) ==
    IF event \in DOMAIN s.session_callbacks
    THEN [s EXCEPT !.session_callbacks[event] = Append(@, callback), !.ret = "None"]
    ELSE [s EXCEPT !.ret = "None"]

\* what the i-th callback of event sees when it is called in s
Invocation(s, event, i) ==
    [event |-> event, callback |-> i, outcome |-> s.session_callbacks[event][i],
     state |-> s.current_state, stats |-> s.daily_stats, pending |-> Len(s.timers)]

\* mutant: the try is missing, the first raising callback ends the loop and
\* the exception leaves the method
trigger_callbacks_uncaught(s, event) ==
    IF event \in DOMAIN s.session_callbacks
    THEN LET cbs == s.session_callbacks[event]
             failing == {i \in 1..Len(cbs) : cbs[i] = "raises"}
             last == IF failing = {} THEN Len(cbs)
                     ELSE CHOOSE i \in failing : \A j \in failing : i <= j
         IN  [s EXCEPT !.hook_log = @ \o [i \in 1..last |-> Invocation(s, event, i)],
                       !.raised = (failing # {})]
    ELSE s

\* every callback runs inside try/except Exception: all of them are called
trigger_callbacks(s, event) ==
    IF event \in DOMAIN s.session_callbacks
    THEN LET cbs == s.session_callbacks[event]
         IN  [s EXCEPT !.hook_log = @ \o [i \in 1..Len(cbs) |-> Invocation(s, event, i)]]
    ELSE s

save_stats(s, d) ==
    [s EXCEPT !.stats_file = [date |-> d, stats |-> s.daily_stats]]

complete_focus_session(s, t) ==
    LET counted ==
          IF s.session_start_time # None
          THEN [s EXCEPT !.daily_stats.focus_minutes = @ + (t - s.session_start_time),
                         !.daily_stats.sessions_completed = @ + 1]
          ELSE s
    IN  [counted EXCEPT !.current_state = "idle", !.session_start_time = None]

\* mutant: the date of the document is not compared with today
load_stats_any_date(file, d) ==
    IF file.date # None THEN file.stats ELSE ZeroStats

\* the except branches (no file, unreadable file) leave the zeroed counters
load_stats(file, d) ==
    IF file.date # None /\ file.date = d THEN file.stats ELSE ZeroStats

\* mutant: the guard on the current state is missing
start_focus_session_unguarded(s, duration_minutes, t) ==
    LET started == [s EXCEPT !.current_state = "focus",
                             !.session_start_time = t,
                             !.session_duration = duration_minutes,
                             !.timers = Append(@, [kind |-> "focus",
                                                   deadline |-> t + duration_minutes]),
                             !.timer_live = TRUE]
        h == trigger_callbacks(started, "session_start")
    IN  IF h.raised THEN h ELSE [h EXCEPT !.ret = "True"]

start_focus_session(s, duration_minutes, t) ==
    IF s.current_state # "idle"
    THEN [s EXCEPT !.ret = "False"]
    ELSE LET started == [s EXCEPT !.current_state = "focus",
                                  !.session_start_time = t,
                                  !.session_duration = duration_minutes,
                                  !.timers = Append(@, [kind |-> "focus",
                                                        deadline |-> t + duration_minutes]),
                                  !.timer_live = TRUE]
             h == trigger_callbacks(started, "session_start")
         IN  IF h.raised THEN h ELSE [h EXCEPT !.ret = "True"]

\* mutant: a running focus session is not finalized before the break starts
start_break_session_no_finalize(s, duration_minutes, t) ==
    IF s.current_state = "break"
    THEN [s EXCEPT !.ret = "False"]
    ELSE LET started == [s EXCEPT !.current_state = "break",
                                  !.session_start_time = t,
                                  !.session_duration = duration_minutes,
                                  !.timers = Append(@, [kind |-> "break",
                                                        deadline |-> t + duration_minutes]),
                                  !.timer_live = TRUE]
             h == trigger_callbacks(started, "break_start")
         IN  IF h.raised THEN h ELSE [h EXCEPT !.ret = "True"]

start_break_session(s, duration_minutes, t) ==
    IF s.current_state = "break"
    THEN [s EXCEPT !.ret = "False"]
    ELSE LET c == IF s.current_state = "focus" THEN complete_focus_session(s, t) ELSE s
             started == [c EXCEPT !.current_state = "break",
                                  !.session_start_time = t,
                                  !.session_duration = duration_minutes,
                                  !.timers = Append(@, [kind |-> "break",
                                                        deadline |-> t + duration_minutes]),
                                  !.timer_live = TRUE]
             h == trigger_callbacks(started, "break_start")
         IN  IF h.raised THEN h ELSE [h EXCEPT !.ret = "True"]

\* mutant: the break is started before the session_end callbacks run
on_focus_session_end_break_first(s, t) ==
    LET b == start_break_session(complete_focus_session(s, t), DefaultBreak, t)
    IN  IF b.raised THEN b ELSE trigger_callbacks(b, "session_end")

on_focus_session_end(s, t) ==
    LET h == trigger_callbacks(complete_focus_session(s, t), "session_end")
    IN  IF h.raised THEN h ELSE start_break_session(h, DefaultBreak, t)

\* mutant: the phase is not set back to idle
on_break_session_end_stays_break(s, t, d) ==
    LET counted ==
          IF s.session_start_time # None
          THEN [s EXCEPT !.daily_stats.break_minutes = @ + (t - s.session_start_time)]
          ELSE s
        h == trigger_callbacks([counted EXCEPT !.session_start_time = None], "break_end")
    IN  IF h.raised THEN h ELSE save_stats(h, d)

\* mutant: the statistics are not written to disk
on_break_session_end_no_save(s, t, d) ==
    LET counted ==
          IF s.session_start_time # None
          THEN [s EXCEPT !.daily_stats.break_minutes = @ + (t - s.session_start_time)]
          ELSE s
        h == trigger_callbacks([counted EXCEPT !.current_state = "idle",
                                               !.session_start_time = None], "break_end")
    IN  h

\* mutant: session_start_time is not cleared
on_break_session_end_keeps_start(s, t, d) ==
    LET counted ==
          IF s.session_start_time # None
          THEN [s EXCEPT !.daily_stats.break_minutes = @ + (t - s.session_start_time)]
          ELSE s
        h == trigger_callbacks([counted EXCEPT !.current_state = "idle"], "break_end")
    IN  IF h.raised THEN h ELSE save_stats(h, d)

on_break_session_end(s, t, d) ==
    LET counted ==
          IF s.session_start_time # None
          THEN [s EXCEPT !.daily_stats.break_minutes = @ + (t - s.session_start_time)]
          ELSE s
        h == trigger_callbacks([counted EXCEPT !.current_state = "idle",
                                               !.session_start_time = None], "break_end")
    IN  IF h.raised THEN h ELSE save_stats(h, d)

\* Timer.cancel() of session_timer: a pending timer never fires, a finished one is untouched
cancel_session_timer(s) ==
    IF s.timer_live
    THEN [s EXCEPT !.timers = SubSeq(@, 1, Len(@) - 1), !.timer_live = FALSE]
    ELSE s

\* mutant: the pending timer is left running
end_current_session_no_cancel(s, t, d) ==
    IF s.current_state = "idle"
    THEN [s EXCEPT !.ret = "False"]
    ELSE LET e == IF s.current_state = "focus" THEN on_focus_session_end(s, t)
                  ELSE on_break_session_end(s, t, d)
         IN  IF e.raised THEN e ELSE [e EXCEPT !.ret = "True"]

end_current_session(s, t, d) ==
    IF s.current_state = "idle"
    THEN [s EXCEPT !.ret = "False"]
    ELSE LET c == cancel_session_timer(s)
             e == IF c.current_state = "focus" THEN on_focus_session_end(c, t)
                  ELSE on_break_session_end(c, t, d)
         IN  IF e.raised THEN e ELSE [e EXCEPT !.ret = "True"]

increment_distractions_blocked(s) ==
    [s EXCEPT !.daily_stats.distractions_blocked = @ + 1, !.ret = "None"]

get_current_status(s) == [state |-> s.current_state]

Self ==
    [current_state |-> current_state, session_start_time |-> session_start_time,
     session_duration |-> session_duration, timers |-> timers,
     timer_live |-> timer_live, daily_stats |-> daily_stats,
     stats_file |-> stats_file, session_callbacks |-> session_callbacks,
     hook_log |-> <<>>, raised |-> FALSE, ret |-> ret]

SetFields(s) ==
    /\ current_state' = s.current_state
    /\ session_start_time' = s.session_start_time
    /\ session_duration' = s.session_duration
    /\ timers' = s.timers
    /\ timer_live' = s.timer_live
    /\ daily_stats' = s.daily_stats
    /\ stats_file' = s.stats_file
    /\ session_callbacks' = s.session_callbacks

SetSelf(s) ==
    /\ SetFields(s)
    /\ hook_log' = s.hook_log
    /\ ret' = IF s.raised THEN "Exception" ELSE s.ret

\* the i-th pending timer leaves the pending set as its callback starts
TimerTaken(s, i) ==
    [s EXCEPT !.timers = SubSeq(@, 1, i - 1) \o SubSeq(@, i + 1, Len(@)),
              !.timer_live = IF i = Len(s.timers) THEN FALSE ELSE @]

(***************************************************************************)
(* ContentAnalyzer                                                         *)
(*   content_data = [url, bad, kw_work, kw_distraction, youtube_score]     *)
(*   url = [scheme, www, host, path]; path is the sequence of segments     *)
(*   after the host. kw_work / kw_distraction are the keyword counts of    *)
(*   _analyze_keywords over the combined text, youtube_score the result of *)
(*   _analyze_youtube_specific. bad names a wrongly typed field: a title   *)
(*   or url that is None, or headings that hold a non-string.              *)
(***************************************************************************)
work_domains ==
    {"stackoverflow.com", "github.com", "developer.mozilla.org", "docs.python.org",
     "reactjs.org", "w3schools.com", "codecademy.com", "freecodecamp.org",
     "coursera.org", "udemy.com", "edx.org", "khan academy.org", "pluralsight.com",
     "linkedin.com/learning", "microsoft.com/docs", "aws.amazon.com/documentation"}

distraction_domains ==
    {"9gag.com", "buzzfeed.com", "tmz.com", "reddit.com/r/funny",
     "reddit.com/r/memes", "tiktok.com", "instagram.com", "facebook.com/watch"}

\* str.lower() on the texts the model uses
Lower(str) ==
    CASE str = "GitHub.com" -> "github.com"
      [] str = "9GAG.com" -> "9gag.com"
      [] str = "HTTPS:" -> "https:"
      [] OTHER -> str

\* text.split('/') on the texts the model uses
split_slash(text) ==
    CASE text = "linkedin.com/learning" -> <<"linkedin.com", "learning">>
      [] text = "microsoft.com/docs" -> <<"microsoft.com", "docs">>
      [] text = "aws.amazon.com/documentation" -> <<"aws.amazon.com", "documentation">>
      [] text = "reddit.com/r/funny" -> <<"reddit.com", "r", "funny">>
      [] text = "reddit.com/r/memes" -> <<"reddit.com", "r", "memes">>
      [] text = "facebook.com/watch" -> <<"facebook.com", "watch">>
      [] text = "ftp://" -> <<"ftp:", "", "">>
      [] text = "HTTPS://" -> <<"HTTPS:", "", "">>
      [] OTHER -> <<text>>

\* the URL scheme ++ (www. if www) ++ text ++ '/' ++ the segments of tail,
\* as the record of its parts
UrlOf(scheme, www, text, tail) ==
    [scheme |-> scheme, www |-> www,
     host |-> Head(split_slash(text)),
     path |-> Tail(split_slash(text)) \o tail]

\* re.sub(r'https?://', ''), re.sub(r'^www\.', ''), split('/')[0], lower():
\* another scheme is not removed, and the text before its first '/' is returned
extract_domain(url) ==
    IF url.scheme \in {"http://", "https://", ""}
    THEN Lower(url.host)
    ELSE Lower(Head(split_slash(url.scheme)))

\* mutant: the distraction sets are looked at first
check_domain_patterns_block_first(domain, allowed, blocked) ==
    IF domain \in distraction_domains \/ domain \in blocked
    THEN [decision |-> "DISTRACTION", confidence |-> 95]
    ELSE IF domain \in work_domains \/ domain \in allowed
         THEN [decision |-> "WORK", confidence |-> 95]
         ELSE [decision |-> "none", confidence |-> 0]

check_domain_patterns(domain, allowed, blocked) ==
    IF domain \in work_domains \/ domain \in allowed
    THEN [decision |-> "WORK", confidence |-> 95]
    ELSE IF domain \in distraction_domains \/ domain \in blocked
         THEN [decision |-> "DISTRACTION", confidence |-> 95]
         ELSE [decision |-> "none", confidence |-> 0]

DocMarkers == {"docs", "documentation", "api"}

\* '/docs/' in url: a marker segment that is followed by a further '/'
analyze_context(url, hour) ==
    (IF 9 <= hour /\ hour <= 17 THEN 1 ELSE 0)
    + (IF \E i \in 1..(Len(url.path) - 1) : url.path[i] \in DocMarkers THEN 2 ELSE 0)

Max(a, b) == IF a >= b THEN a ELSE b
Min(a, b) == IF a <= b THEN a ELSE b

\* mutant: the confidence starts from 0.5 instead of 0.6
make_final_decision_low_base(work_score, distraction_score, youtube_score, context_score) ==
    LET total_work == work_score + Max(0, youtube_score) + context_score
        total_distraction == distraction_score + Max(0, -youtube_score)
    IN  IF total_work >= 2 /\ total_work > total_distraction
        THEN [decision |-> "WORK",
              confidence |-> Min(90, 50 + (total_work - total_distraction) * 10)]
        ELSE IF total_distraction >= 2 /\ total_distraction > total_work
             THEN [decision |-> "DISTRACTION",
                   confidence |-> Min(90, 50 + (total_distraction - total_work) * 10)]
             ELSE [decision |-> "NEUTRAL", confidence |-> 30]

\* mutant: equal totals count for the work side
make_final_decision_tie_is_work(work_score, distraction_score, youtube_score, context_score) ==
    LET total_work == work_score + Max(0, youtube_score) + context_score
        total_distraction == distraction_score + Max(0, -youtube_score)
    IN  IF total_work >= 2 /\ total_work >= total_distraction
        THEN [decision |-> "WORK",
              confidence |-> Min(90, 60 + (total_work - total_distraction) * 10)]
        ELSE IF total_distraction >= 2 /\ total_distraction > total_work
             THEN [decision |-> "DISTRACTION",
                   confidence |-> Min(90, 60 + (total_distraction - total_work) * 10)]
             ELSE [decision |-> "NEUTRAL", confidence |-> 30]

make_final_decision(work_score, distraction_score, youtube_score, context_score) ==
    LET total_work == work_score + Max(0, youtube_score) + context_score
        total_distraction == distraction_score + Max(0, -youtube_score)
    IN  IF total_work >= 2 /\ total_work > total_distraction
        THEN [decision |-> "WORK",
              confidence |-> Min(90, 60 + (total_work - total_distraction) * 10)]
        ELSE IF total_distraction >= 2 /\ total_distraction > total_work
             THEN [decision |-> "DISTRACTION",
                   confidence |-> Min(90, 60 + (total_distraction - total_work) * 10)]
             ELSE [decision |-> "NEUTRAL", confidence |-> 30]

AnalysisError == [decision |-> "NEUTRAL", confidence |-> 0]

Raised == [decision |-> "raise", confidence |-> 0]

\* the statements under try: the verdict they return, or Raised
try_analyze_content(content_data, allowed, blocked, hour) ==
    IF content_data.bad = "title"            \* None[:50] raises in the first statement
    THEN Raised
    ELSE IF content_data.bad = "url"         \* re.sub(None) raises, then None.lower()
    THEN Raised
    ELSE LET domain == extract_domain(content_data.url)
             domain_result == check_domain_patterns(domain, allowed, blocked)
         IN  IF domain_result.decision # "none"
             THEN domain_result
             ELSE IF content_data.bad = "headings"   \* ' '.join raises on a non-string
                  THEN Raised
                  ELSE make_final_decision(content_data.kw_work,
                                           content_data.kw_distraction,
                                           content_data.youtube_score,
                                           analyze_context(content_data.url, hour))

\* mutant: no except clause, the exception reaches the caller
analyze_content_uncaught(content_data, allowed, blocked, hour) ==
    try_analyze_content(content_data, allowed, blocked, hour)

\* except Exception: the error verdict
analyze_content(content_data, allowed, blocked, hour) ==
    LET result == try_analyze_content(content_data, allowed, blocked, hour)
    IN  IF result = Raised THEN AnalysisError ELSE result

NoPatternsFile == [exists |-> FALSE, allowed_sites |-> {}, blocked_sites |-> {}]

\* the two lists of user_patterns.json
save_user_patterns(p) ==
    [exists |-> TRUE, allowed_sites |-> p.allowed, blocked_sites |-> p.blocked]

\* FileNotFoundError leaves the sets as __init__ made them
load_user_patterns(p, file) ==
    IF file.exists
    THEN [allowed |-> file.allowed_sites, blocked |-> file.blocked_sites]
    ELSE p

\* mutant: a decision already recorded for the domain is withdrawn by the call
add_user_preference_toggle(p, domain, decision) ==
    IF decision = "WORK"
    THEN IF domain \in p.allowed
         THEN [allowed |-> p.allowed \ {domain}, blocked |-> p.blocked]
         ELSE [allowed |-> p.allowed \cup {domain}, blocked |-> p.blocked \ {domain}]
    ELSE IF decision = "DISTRACTION"
         THEN IF domain \in p.blocked
              THEN [allowed |-> p.allowed, blocked |-> p.blocked \ {domain}]
              ELSE [allowed |-> p.allowed \ {domain}, blocked |-> p.blocked \cup {domain}]
         ELSE p

\* mutant: the domain stays in the other set
add_user_preference_keeps_other(p, domain, decision) ==
    IF decision = "WORK"
    THEN [allowed |-> p.allowed \cup {domain}, blocked |-> p.blocked]
    ELSE IF decision = "DISTRACTION"
         THEN [allowed |-> p.allowed, blocked |-> p.blocked \cup {domain}]
         ELSE p

\* the sets after add_user_preference; save_user_patterns then writes them
add_user_preference(p, domain, decision) ==
    IF decision = "WORK"
    THEN [allowed |-> p.allowed \cup {domain}, blocked |-> p.blocked \ {domain}]
    ELSE IF decision = "DISTRACTION"
         THEN [allowed |-> p.allowed \ {domain}, blocked |-> p.blocked \cup {domain}]
         ELSE p

(***************************************************************************)
(* main.py: POST /analyze/content                                          *)
(*   bad_json: request.get_json() raises; the handler's except answers.    *)
(***************************************************************************)
\* mutant: the session phase is not consulted
should_close_tab_any_phase(state, result) ==
    /\ result.decision = "DISTRACTION"
    /\ result.confidence > 60

should_close_tab(state, result) ==
    /\ state = "focus"
    /\ result.decision = "DISTRACTION"
    /\ result.confidence > 60

analyze_content_handler(s, content_data, bad_json, allowed, blocked, hour) ==
    IF bad_json
    THEN [s |-> s,
          response |-> [NoResponse EXCEPT !.status = "error", !.code = 500,
                           !.decision = "NEUTRAL", !.confidence = 0, !.action = "allow"]]
    ELSE LET result == analyze_content(content_data, allowed, blocked, hour)
             current_session == get_current_status(s)
             base == [NoResponse EXCEPT !.status = "ok", !.code = 200,
                         !.decision = result.decision, !.confidence = result.confidence]
         IN  IF should_close_tab(current_session.state, result)
             THEN [s |-> increment_distractions_blocked(s),
                   response |-> [base EXCEPT !.action = "close_tab"]]
             ELSE [s |-> s, response |-> [base EXCEPT !.action = "allow"]]

(***************************************************************************)
(* Spec: the session machine, the classifier and POST /analyze/content     *)
(***************************************************************************)
\* the requests of OrchestratorSpec: every verdict the classifier can give occurs
Hosts == {"stackoverflow.com", "9GAG.com", "example.com"}
Urls == [scheme : {"https://"}, www : {TRUE}, host : Hosts, path : {<<"meme", "1">>}]
PrefDomains == {"example.com"}
Hours == {8, 9}
Contents == [url : Urls, bad : {"none", "title"},
             kw_work : {0, 1}, kw_distraction : 0..MaxScore,
             youtube_score : {0}]

Threads == 1..MaxThreads

\* a thread that runs no call: pc is the statement it is at, call what it was
\* started for, duration, url, now and recent its locals, added the counter it
\* added elapsed minutes to, ret what its call returned
NoThread == [pc |-> "none", call |-> "", duration |-> 0, url |-> "", now |-> None,
             recent |-> <<>>, added |-> "", ret |-> ""]

NoProcess == [state |-> "none", caller |-> "", url |-> "", started |-> 0]

NoPrefCall == [domain |-> "", decision |-> "", repeated |-> FALSE]

NoRequest == [url |-> [scheme |-> "", www |-> FALSE, host |-> "", path |-> <<>>],
              bad |-> "none", kw_work |-> 0, kw_distraction |-> 0, youtube_score |-> 0]

TrackerIdle ==
    /\ time_time = 0
    /\ distractions = <<>>
    /\ analysis_enabled = TRUE

\* the gestures _classify_hand_gesture names
Gestures == {"open", "closed", "thumbs_up", "point"}

\* latest_gesture when no gesture waits to be read (None)
NoGesture == "none"

\* GestureRecognizer() at time 0
GestureIdle ==
    /\ gesture_history = <<>>
    /\ last_sequence_trigger_time = 0
    /\ last_gesture_time = [gesture \in Gestures |-> None]
    /\ latest_gesture = NoGesture
    /\ url_analysis_calls = 0

Init ==
    /\ datetime_now = 0
    /\ today = 1
    /\ stats_at_midnight = ZeroStats
    /\ current_state = "idle"
    /\ session_start_time = None
    /\ session_duration = 0
    /\ timers = <<>>
    /\ timer_live = FALSE
    /\ stats_file = NoFile
    /\ daily_stats = load_stats(stats_file, today)
    /\ session_callbacks = NoCallbacks
    /\ allowed_sites = {}
    /\ blocked_sites = {}
    /\ patterns_file = NoPatternsFile
    /\ TrackerIdle
    /\ op = "init" /\ ret = "None" /\ calls = 0
    /\ status = NoStatus
    /\ pruned = 0
    /\ response = NoResponse
    /\ hook_log = <<>>
    /\ request = NoRequest
    /\ clock_hour = 0
    /\ pref_call = NoPrefCall
    /\ goose_process = NoProcess
    /\ threads = [t \in Threads |-> NoThread]
    /\ GestureIdle

Observe(o, c, r) ==
    /\ request' = NoRequest
    /\ clock_hour' = 0
    /\ pref_call' = NoPrefCall
    /\ goose_process' = NoProcess
    /\ UNCHANGED threads
    /\ op' = o
    /\ calls' = c
    /\ response' = r
    /\ status' = NoStatus
    /\ pruned' = 0

\* time passes; a timer whose deadline is reached runs before the clock moves on
Tick ==
    /\ datetime_now < MaxMinutes
    /\ \A i \in 1..Len(timers) : timers[i].deadline > datetime_now
    /\ datetime_now' = datetime_now + 1
    /\ UNCHANGED <<dayVars, gestureVars, sessionVars, prefVars, trackerVars, obsVars>>

StartFocus(d) ==
    /\ Len(timers) < MaxTimers
    /\ daily_stats.sessions_completed < MaxSessions
    /\ SetSelf(start_focus_session(Self, d, datetime_now))
    /\ Observe("start_focus_session", 0, NoResponse)
    /\ UNCHANGED <<datetime_now, dayVars, gestureVars, prefVars, trackerVars>>

StartBreak(d) ==
    /\ Len(timers) < MaxTimers
    /\ SetSelf(start_break_session(Self, d, datetime_now))
    /\ Observe("start_break_session", 0, NoResponse)
    /\ UNCHANGED <<datetime_now, dayVars, gestureVars, prefVars, trackerVars>>

EndCurrentSession ==
    /\ Len(timers) <= MaxTimers
    /\ SetSelf(end_current_session(Self, datetime_now, today))
    /\ Observe("end_current_session", 0, NoResponse)
    /\ UNCHANGED <<datetime_now, dayVars, gestureVars, prefVars, trackerVars>>

FocusTimerExpires(i) ==
    /\ timers[i].kind = "focus"
    /\ timers[i].deadline <= datetime_now
    /\ SetSelf([on_focus_session_end(TimerTaken(Self, i), datetime_now) EXCEPT !.ret = "None"])
    /\ Observe("focus_timer", 0, NoResponse)
    /\ UNCHANGED <<datetime_now, dayVars, gestureVars, prefVars, trackerVars>>

BreakTimerExpires(i) ==
    /\ timers[i].kind = "break"
    /\ timers[i].deadline <= datetime_now
    /\ SetSelf([on_break_session_end(TimerTaken(Self, i), datetime_now, today) EXCEPT !.ret = "None"])
    /\ Observe("break_timer", 0, NoResponse)
    /\ UNCHANGED <<datetime_now, dayVars, gestureVars, prefVars, trackerVars>>

IncrementDistractionsBlocked ==
    /\ daily_stats.distractions_blocked < MaxBlocked
    /\ SetSelf(increment_distractions_blocked(Self))
    /\ Observe("increment_distractions_blocked", 0, NoResponse)
    /\ UNCHANGED <<datetime_now, dayVars, gestureVars, prefVars, trackerVars>>

AddUserPreference(domain, decision) ==
    /\ LET p == add_user_preference([allowed |-> allowed_sites, blocked |-> blocked_sites],
                                    domain, decision)
       IN  /\ allowed_sites' = p.allowed
           /\ blocked_sites' = p.blocked
           /\ patterns_file' = save_user_patterns(p)
    /\ pref_call' = [domain |-> domain, decision |-> decision,
                     repeated |-> /\ pref_call.domain = domain
                                  /\ pref_call.decision = decision]
    /\ op' = "add_user_preference"
    /\ ret' = "None"
    /\ calls' = 0
    /\ status' = NoStatus
    /\ pruned' = 0
    /\ response' = NoResponse
    /\ hook_log' = <<>>
    /\ request' = NoRequest
    /\ clock_hour' = 0
    /\ goose_process' = NoProcess
    /\ UNCHANGED <<datetime_now, dayVars, gestureVars, sessionVars, trackerVars, threads>>

AnalyzeContent(content_data, bad_json, hour) ==
    /\ daily_stats.distractions_blocked < MaxBlocked
    /\ LET r == analyze_content_handler(Self, content_data, bad_json,
                                        allowed_sites, blocked_sites, hour)
       IN  /\ SetSelf([r.s EXCEPT !.ret = "response"])
           /\ Observe("analyze_content", 0, r.response)
    /\ UNCHANGED <<datetime_now, dayVars, gestureVars, prefVars, trackerVars>>

Next ==
    \/ Tick
    \/ \E d \in Durations : StartFocus(d)
    \/ \E d \in Durations : StartBreak(d)
    \/ EndCurrentSession
    \/ \E i \in 1..Len(timers) : FocusTimerExpires(i)
    \/ \E i \in 1..Len(timers) : BreakTimerExpires(i)
    \/ IncrementDistractionsBlocked

Spec == Init /\ [][Next]_vars

(***************************************************************************)
(* OrchestratorSpec: POST /analyze/content of main.py arriving in every    *)
(* phase of the session machine. The clock stands still here: the handler  *)
(* reads the phase only, and every phase is reached by the session         *)
(* commands; timer expiry is covered by Spec.                              *)
(***************************************************************************)
OrchestratorNext ==
    \/ \E d \in Durations : StartFocus(d)
    \/ \E d \in Durations : StartBreak(d)
    \/ EndCurrentSession
    \/ \E domain \in PrefDomains, decision \in {"WORK", "DISTRACTION"} :
          AddUserPreference(domain, decision)
    \/ \E content_data \in Contents, bad_json \in BOOLEAN, hour \in Hours :
          AnalyzeContent(content_data, bad_json, hour)

OrchestratorSpec == Init /\ [][OrchestratorNext]_vars

(***************************************************************************)
(* ClassifierSpec: ContentAnalyzer.analyze_content on URLs made of the     *)
(* entries of the domain sets, under the user's overrides                  *)
(***************************************************************************)
Schemes == {"http://", "https://"}
Tails == {<<>>, <<"docs", "api">>}
ClassEntries == {"github.com", "linkedin.com/learning", "9gag.com",
                 "reddit.com/r/funny", "example.com"}
ClassPrefDomains == {"github.com", "9gag.com"}

\* the URLs that are an entry of entries behind a scheme, with or without www., and a path
EntryUrls(entries) ==
    {UrlOf(scheme, www, text, tail) :
        scheme \in Schemes, www \in BOOLEAN, text \in entries, tail \in Tails}

ClassContents ==
    [url : EntryUrls(ClassEntries), bad : {"none"}, kw_work : {0},
     kw_distraction : {0, MaxScore}, youtube_score : {0}]

Classify(content_data, hour) ==
    /\ LET result == analyze_content(content_data, allowed_sites, blocked_sites, hour)
       IN  response' = [NoResponse EXCEPT !.status = "ok",
                                         !.decision = result.decision,
                                         !.confidence = result.confidence]
    /\ request' = content_data
    /\ clock_hour' = hour
    /\ pref_call' = NoPrefCall
    /\ goose_process' = NoProcess
    /\ UNCHANGED threads
    /\ op' = "classify"
    /\ ret' = IF analyze_content(content_data, allowed_sites, blocked_sites, hour) = Raised
              THEN "Exception" ELSE "result"
    /\ calls' = 0
    /\ status' = NoStatus
    /\ pruned' = 0
    /\ hook_log' = <<>>
    /\ UNCHANGED <<datetime_now, dayVars, gestureVars, sessionVars, prefVars, trackerVars>>

\* the process is started again: ContentAnalyzer() empties the sets and loads the document
ReloadPatterns ==
    /\ LET p == load_user_patterns([allowed |-> {}, blocked |-> {}], patterns_file)
       IN  /\ allowed_sites' = p.allowed
           /\ blocked_sites' = p.blocked
    /\ Observe("load_user_patterns", 0, NoResponse)
    /\ ret' = "None"
    /\ hook_log' = <<>>
    /\ UNCHANGED <<datetime_now, dayVars, gestureVars, sessionVars, patterns_file, trackerVars>>

ClassifierNext ==
    \/ \E content_data \in ClassContents, hour \in Hours : Classify(content_data, hour)
    \/ \E domain \in ClassPrefDomains, decision \in {"WORK", "DISTRACTION", "NEUTRAL"} :
          AddUserPreference(domain, decision)
    \/ ReloadPatterns

ClassifierSpec == Init /\ [][ClassifierNext]_vars

(***************************************************************************)
(* ScoreSpec: ContentAnalyzer.analyze_content on snapshots of every score, *)
(* well and wrongly typed, at hours inside and outside the work hours      *)
(***************************************************************************)
ScoreHosts == {"example.com", "github.com"}
ScoreUrls == {UrlOf("https://", FALSE, host, tail) : host \in ScoreHosts, tail \in Tails}
ScorePrefDomains == {"example.com"}
YoutubeScores == {-3, 0, 2, 3}
ScoreContents ==
    [url : ScoreUrls, bad : {"none", "title", "url", "headings"}, kw_work : {0, 2},
     kw_distraction : {0, MaxScore}, youtube_score : YoutubeScores]

ScoreNext ==
    \/ \E content_data \in ScoreContents, hour \in Hours : Classify(content_data, hour)
    \/ \E domain \in ScorePrefDomains, decision \in {"WORK", "DISTRACTION"} :
          AddUserPreference(domain, decision)

ScoreSpec == Init /\ [][ScoreNext]_vars

(***************************************************************************)
(* HookSpec: the session machine with callbacks registered for its events  *)
(***************************************************************************)
HookBehaviours == {"returns", "raises"}
HookDurations == {1}

Registered ==
    Len(session_callbacks["session_start"]) + Len(session_callbacks["session_end"])
    + Len(session_callbacks["break_start"]) + Len(session_callbacks["break_end"])

RegisterCallback(event, callback) ==
    /\ Registered < MaxHooks
    /\ SetSelf(register_callback(Self, event, callback))
    /\ Observe("register_callback", 0, NoResponse)
    /\ UNCHANGED <<datetime_now, dayVars, gestureVars, prefVars, trackerVars>>

\* the clock of HookSpec: every event is triggered within MaxHookMinutes
HookTick ==
    /\ datetime_now < MaxHookMinutes
    /\ Tick

\* the session commands of HookSpec and StatsSpec, taken while few timers are pending
HookStartFocus(d) ==
    /\ Len(timers) < MaxHookTimers
    /\ StartFocus(d)

HookStartBreak(d) ==
    /\ Len(timers) < MaxHookTimers
    /\ StartBreak(d)

HookNext ==
    \/ HookTick
    \/ \E event \in HookEvents \cup {"session_pause"}, callback \in HookBehaviours :
          RegisterCallback(event, callback)
    \/ \E d \in HookDurations : HookStartFocus(d)
    \/ \E d \in HookDurations : HookStartBreak(d)
    \/ EndCurrentSession
    \/ \E i \in 1..Len(timers) : FocusTimerExpires(i)
    \/ \E i \in 1..Len(timers) : BreakTimerExpires(i)

HookSpec == Init /\ [][HookNext]_vars

(***************************************************************************)
(* StatsSpec: the statistics document across process restarts and dates.   *)
(* The process starts on day 1 with no document, with yesterday's or with  *)
(* today's.                                                                *)
(***************************************************************************)
SavedStats == [focus_minutes |-> 2, break_minutes |-> 1,
               sessions_completed |-> 1, distractions_blocked |-> 1]
StatsFiles == {NoFile} \cup [date : {0, 1}, stats : {SavedStats}]

StatsInit ==
    /\ datetime_now = 0
    /\ today = 1
    /\ stats_at_midnight = ZeroStats
    /\ current_state = "idle"
    /\ session_start_time = None
    /\ session_duration = 0
    /\ timers = <<>>
    /\ timer_live = FALSE
    /\ stats_file \in StatsFiles
    /\ daily_stats = load_stats(stats_file, today)
    /\ session_callbacks = NoCallbacks
    /\ allowed_sites = {}
    /\ blocked_sites = {}
    /\ patterns_file = NoPatternsFile
    /\ TrackerIdle
    /\ op = "init" /\ ret = "None" /\ calls = 0
    /\ status = NoStatus
    /\ pruned = 0
    /\ response = NoResponse
    /\ hook_log = <<>>
    /\ request = NoRequest
    /\ clock_hour = 0
    /\ pref_call = NoPrefCall
    /\ goose_process = NoProcess
    /\ threads = [t \in Threads |-> NoThread]
    /\ GestureIdle

\* the process is started again: SessionManager() runs on the document the
\* last process left; the timers of the last process are gone with it
Restart ==
    /\ current_state' = "idle"
    /\ session_start_time' = None
    /\ session_duration' = 0
    /\ timers' = <<>>
    /\ timer_live' = FALSE
    /\ daily_stats' = load_stats(stats_file, today)
    /\ session_callbacks' = NoCallbacks
    /\ stats_at_midnight' = ZeroStats
    /\ ret' = "None"
    /\ hook_log' = <<>>
    /\ Observe("init", 0, NoResponse)
    /\ UNCHANGED <<datetime_now, today, gestureVars, stats_file, prefVars, trackerVars>>

\* the calendar date of datetime.now() changes while the process runs
Midnight ==
    /\ today < MaxDay
    /\ today' = today + 1
    /\ stats_at_midnight' = daily_stats
    /\ UNCHANGED <<datetime_now, gestureVars, sessionVars, prefVars, trackerVars, obsVars>>

StatsTick ==
    /\ datetime_now < MaxStatsMinutes
    /\ Tick

StatsNext ==
    \/ StatsTick
    \/ \E d \in Durations : HookStartFocus(d)
    \/ \E d \in Durations : HookStartBreak(d)
    \/ EndCurrentSession
    \/ \E i \in 1..Len(timers) : FocusTimerExpires(i)
    \/ \E i \in 1..Len(timers) : BreakTimerExpires(i)
    \/ IncrementDistractionsBlocked
    \/ Midnight
    \/ Restart

StatsSpec == StatsInit /\ [][StatsNext]_vars

(***************************************************************************)
(* GooseClient.run_task, by what the goose process does                    *)
(*   "yes" / "no"   : exit code 0, stdout holding / not holding YES        *)
(*   "exit_nonzero" : _run_command raises GooseError, run_task returns     *)
(*                    success False without an output key                  *)
(*   "oserror"      : subprocess.run raises OSError (no goose executable), *)
(*                    which _run_command and run_task do not catch         *)
(* subprocess.run is called without text=True: stdout is a bytes object.   *)
(***************************************************************************)
AgentOutcomes == {"yes", "no", "exit_nonzero", "oserror"}

\* the agent's reply holds "YES" / holds it once upper-cased ("yes" does, "no" does not)
HasYes(outcome) == outcome = "yes"
HasYesUpper(outcome) == outcome \in {"yes", "yes_lower"}

\* subprocess.run without text=True: stdout is bytes
run_task(outcome) ==
    CASE outcome \in {"yes", "yes_lower", "no"} ->
             [raised |-> FALSE, success |-> TRUE,
              output |-> [type |-> "bytes", has_yes |-> HasYes(outcome),
                          has_yes_upper |-> HasYesUpper(outcome)]]
      [] outcome = "exit_nonzero" ->
             [raised |-> FALSE, success |-> FALSE,
              output |-> [type |-> "absent", has_yes |-> FALSE, has_yes_upper |-> FALSE]]
      [] OTHER ->
             [raised |-> TRUE, success |-> FALSE,
              output |-> [type |-> "absent", has_yes |-> FALSE, has_yes_upper |-> FALSE]]

\* result.get("output", default): the value, or the default when the key is absent
dict_get_output(result, default_type) ==
    IF result.output.type = "absent"
    THEN [type |-> default_type, has_yes |-> FALSE, has_yes_upper |-> FALSE]
    ELSE result.output

\* "YES" in x: a bool for a str, TypeError for bytes and for None
yes_in(x) ==
    IF x.type = "str" THEN (IF x.has_yes THEN "True" ELSE "False") ELSE "TypeError"

(***************************************************************************)
(* DistractionTracker                                                      *)
(*   an event is [url, title, timestamp]; its 'datetime' is the ISO text   *)
(*   of the same instant                                                   *)
(***************************************************************************)
detection_window == 600
intervention_threshold == 2

\* mutant: an event exactly detection_window old is kept
get_recent_distractions_inclusive(ds, t) ==
    SelectSeq(ds, LAMBDA d : d.timestamp >= t - detection_window)

\* mutant: nothing is filtered out
get_recent_distractions_unfiltered(ds, t) == ds

\* also assigns the filtered list to self.distractions
get_recent_distractions(ds, t) ==
    SelectSeq(ds, LAMBDA d : d.timestamp > t - detection_window)

\* mutant: fires on the transition edge only
should_intervene_edge(ds, t) ==
    Len(get_recent_distractions(ds, t)) = intervention_threshold

\* mutant: strict comparison with the threshold
should_intervene_strict(ds, t) ==
    Len(get_recent_distractions(ds, t)) > intervention_threshold

should_intervene(ds, t) ==
    Len(get_recent_distractions(ds, t)) >= intervention_threshold

\* a text is the sequence of its pieces: an entry of the context, or literal text
Entry(d) == [kind |-> "entry", title |-> d.title, url |-> d.url, at |-> d.timestamp]
Literal(text) == [kind |-> "literal", title |-> text, url |-> "", at |-> 0]

\* sep.join(parts)
str_join(sep, parts) ==
    IF sep = "" \/ parts = <<>>
    THEN parts
    ELSE [i \in 1..(2 * Len(parts) - 1) |->
             IF i % 2 = 1 THEN parts[(i + 1) \div 2] ELSE Literal(sep)]

\* context_text of start_intervention: f"- {title} ({url}) at {datetime}" of each event
distraction_context(recent_distractions) ==
    str_join("", [i \in 1..Len(recent_distractions) |-> Entry(recent_distractions[i])])

\* mutant: no except clause around run_task
start_intervention_uncaught(recent_distractions, outcome) ==
    LET result == run_task(outcome)
    IN  IF result.raised THEN "Exception"
        ELSE IF result.success THEN "output"
        ELSE "Intervention failed"

\* returns a string in every case
start_intervention(recent_distractions, outcome) ==
    LET result == run_task(outcome)
    IN  IF result.raised THEN "Intervention error"
        ELSE IF result.success THEN "output"
        ELSE "Intervention failed"

\* [distractions, ret, calls, context] after log_distraction(url, title) at time t;
\* context is the context_text handed to the agent
log_distraction(ds, url, title, t, outcome) ==
    LET appended == Append(ds, [url |-> url, title |-> title, timestamp |-> t])
        recent == get_recent_distractions(appended, t)
    IN  IF should_intervene(appended, t)
        THEN [distractions |-> recent,
              ret |-> start_intervention(recent, outcome),
              calls |-> 1,
              context |-> distraction_context(recent)]
        ELSE [distractions |-> recent,          \* 'return response' with response unbound
              ret |-> "UnboundLocalError",
              calls |-> 0,
              context |-> <<>>]

get_status(ds, t) ==
    LET recent_distractions == get_recent_distractions(ds, t)
    IN  [total_distractions |-> Len(recent_distractions),
         recent_distractions |-> Len(recent_distractions)]

(***************************************************************************)
(* simple_main.py: POST /analyze-distraction                               *)
(*   answers [distractions, calls, response]                               *)
(***************************************************************************)
ErrorResponse(code) == [NoResponse EXCEPT !.status = "error", !.code = code]

analyze_distraction(ds, enabled, url, title, t, intervention_outcome, analysis_outcome) ==
    IF url = ""
    THEN [distractions |-> ds, calls |-> 0, response |-> ErrorResponse(400)]
    ELSE LET logged == log_distraction(ds, url, title, t, intervention_outcome)
         IN  IF logged.ret = "UnboundLocalError"
             THEN [distractions |-> logged.distractions, calls |-> logged.calls,
                   response |-> ErrorResponse(500)]
             ELSE IF ~enabled
             THEN [distractions |-> logged.distractions, calls |-> logged.calls,
                   response |-> [NoResponse EXCEPT !.status = "analysis_disabled",
                                    !.code = 200, !.analysis = "DISABLED"]]
             ELSE LET result == run_task(analysis_outcome)
                      is_distraction == yes_in(dict_get_output(result, "str"))
                      printed == yes_in(dict_get_output(result, "None"))
                  IN  IF result.raised \/ is_distraction = "TypeError" \/ printed = "TypeError"
                      THEN [distractions |-> logged.distractions,
                            calls |-> logged.calls + 1,
                            response |-> ErrorResponse(500)]
                      ELSE [distractions |-> logged.distractions,
                            calls |-> logged.calls + 1,
                            response |-> [NoResponse EXCEPT
                                 !.status = "analyzed", !.code = 200,
                                 !.is_distraction = (is_distraction = "True"),
                                 !.analysis = IF is_distraction = "True" THEN "YES" ELSE "NO",
                                 !.action = IF is_distraction = "True" THEN "close_tab"
                                            ELSE "absent"]]

(***************************************************************************)
(* simple_main_clean.py: POST /analyze-distraction                         *)
(*   no tracker; GooseClient() is made per request and runs goose --version*)
(***************************************************************************)
\* 'YES' in x.strip().upper(): bytes stay bytes, and the test raises TypeError
yes_in_upper(x) ==
    IF x.type = "str" THEN (IF x.has_yes_upper THEN "True" ELSE "False") ELSE "TypeError"

analyze_distraction_clean(url, title, analysis_outcome) ==
    IF url = ""
    THEN [calls |-> 0, response |-> ErrorResponse(400)]
    ELSE IF analysis_outcome = "oserror"         \* GooseClient() raises
    THEN [calls |-> 0, response |-> ErrorResponse(500)]
    ELSE LET result == run_task(analysis_outcome)
             is_distraction == yes_in_upper(dict_get_output(result, "str"))
         IN  IF result.raised \/ is_distraction = "TypeError"
             THEN [calls |-> 1, response |-> ErrorResponse(500)]
             ELSE [calls |-> 1,
                   response |-> [NoResponse EXCEPT
                        !.status = "analyzed", !.code = 200,
                        !.is_distraction = (is_distraction = "True"),
                        !.analysis = IF is_distraction = "True" THEN "YES" ELSE "NO",
                        !.action = IF is_distraction = "True" THEN "close_tab"
                                   ELSE "absent"]]

(***************************************************************************)
(* TrackerSpec                                                             *)
(***************************************************************************)
TrackerUrls == {"https://reddit.com/x", "https://youtube.com/cats"}
Titles == {"A"}

TrackerTick ==
    /\ time_time + TimeStep <= MaxSeconds
    /\ time_time' = time_time + TimeStep
    /\ UNCHANGED <<datetime_now, dayVars, gestureVars, sessionVars, prefVars, distractions,
                   analysis_enabled, obsVars>>

LogDistraction(url, title, outcome) ==
    /\ Len(distractions) < MaxEvents
    /\ LET r == log_distraction(distractions, url, title, time_time, outcome)
       IN  /\ distractions' = r.distractions
           /\ ret' = r.ret
           /\ calls' = r.calls
    /\ pruned' = Len(distractions) + 1 - Len(distractions')
    /\ op' = "log_distraction"
    /\ status' = NoStatus
    /\ response' = NoResponse
    /\ UNCHANGED <<datetime_now, dayVars, gestureVars, sessionVars, prefVars, time_time,
                   analysis_enabled, hook_log, request, clock_hour, pref_call,
                   goose_process, threads>>

ShouldIntervene ==
    /\ distractions' = get_recent_distractions(distractions, time_time)
    /\ ret' = IF should_intervene(distractions, time_time) THEN "True" ELSE "False"
    /\ pruned' = Len(distractions) - Len(distractions')
    /\ op' = "should_intervene"
    /\ calls' = 0
    /\ status' = NoStatus
    /\ response' = NoResponse
    /\ UNCHANGED <<datetime_now, dayVars, gestureVars, sessionVars, prefVars, time_time,
                   analysis_enabled, hook_log, request, clock_hour, pref_call,
                   goose_process, threads>>

GetStatus ==
    /\ distractions' = get_recent_distractions(distractions, time_time)
    /\ status' = get_status(distractions, time_time)
    /\ pruned' = Len(distractions) - Len(distractions')
    /\ ret' = "status"
    /\ op' = "get_status"
    /\ calls' = 0
    /\ response' = NoResponse
    /\ UNCHANGED <<datetime_now, dayVars, gestureVars, sessionVars, prefVars, time_time,
                   analysis_enabled, hook_log, request, clock_hour, pref_call,
                   goose_process, threads>>

AnalyzeDistraction(url, title, intervention_outcome, analysis_outcome) ==
    /\ Len(distractions) < MaxEvents
    /\ LET r == analyze_distraction(distractions, analysis_enabled, url, title, time_time,
                                    intervention_outcome, analysis_outcome)
       IN  /\ distractions' = r.distractions
           /\ calls' = r.calls
           /\ response' = r.response
    /\ pruned' = Len(distractions) + (IF url = "" THEN 0 ELSE 1) - Len(distractions')
    /\ ret' = "response"
    /\ op' = "analyze_distraction"
    /\ status' = NoStatus
    /\ UNCHANGED <<datetime_now, dayVars, gestureVars, sessionVars, prefVars, time_time,
                   analysis_enabled, hook_log, request, clock_hour, pref_call,
                   goose_process, threads>>

\* the gesture callbacks simple_main.py registers: thumbs_up and peace
SetAnalysis(enabled) ==
    /\ analysis_enabled' = enabled
    /\ UNCHANGED <<datetime_now, dayVars, gestureVars, sessionVars, prefVars, time_time,
                   distractions, obsVars>>

EnableAnalysis == SetAnalysis(TRUE)

DisableAnalysis == SetAnalysis(FALSE)

TrackerNext ==
    \/ TrackerTick
    \/ \E url \in TrackerUrls, title \in Titles, outcome \in AgentOutcomes :
          LogDistraction(url, title, outcome)
    \/ ShouldIntervene
    \/ GetStatus
    \/ \E url \in TrackerUrls \cup {""}, title \in Titles,
          intervention_outcome \in AgentOutcomes, analysis_outcome \in AgentOutcomes :
          AnalyzeDistraction(url, title, intervention_outcome, analysis_outcome)
    \/ EnableAnalysis
    \/ DisableAnalysis

TrackerSpec == Init /\ [][TrackerNext]_vars

(***************************************************************************)
(* AnalysisSpec: POST /analyze-distraction of simple_main.py and of        *)
(* simple_main_clean.py on every reply of the language agent               *)
(***************************************************************************)
AnalysisOutcomes == AgentOutcomes \cup {"yes_lower"}

AnalyzeDistractionClean(url, title, analysis_outcome) ==
    /\ LET r == analyze_distraction_clean(url, title, analysis_outcome)
       IN  /\ calls' = r.calls
           /\ response' = r.response
    /\ pruned' = 0
    /\ ret' = "response"
    /\ op' = "analyze_distraction_clean"
    /\ status' = NoStatus
    /\ UNCHANGED <<datetime_now, dayVars, gestureVars, sessionVars, prefVars, trackerVars,
                   hook_log, request, clock_hour, pref_call, goose_process, threads>>

AnalysisNext ==
    \/ TrackerTick
    \/ \E url \in TrackerUrls \cup {""}, title \in Titles,
          intervention_outcome \in AgentOutcomes, analysis_outcome \in AnalysisOutcomes :
          AnalyzeDistraction(url, title, intervention_outcome, analysis_outcome)
    \/ \E url \in TrackerUrls \cup {""}, title \in Titles,
          analysis_outcome \in AnalysisOutcomes :
          AnalyzeDistractionClean(url, title, analysis_outcome)
    \/ EnableAnalysis
    \/ DisableAnalysis

AnalysisSpec == Init /\ [][AnalysisNext]_vars

(***************************************************************************)
(* AgentSpec: GooseClient.run_task as its two callers wait for it: the     *)
(* goose process is started, time passes while it runs, and the caller     *)
(* goes on when it exits. _run_command takes a timeout argument (600 from  *)
(* run_task) and gives subprocess.run none, so nothing else ends the wait. *)
(***************************************************************************)
run_task_timeout == 600
ExitOutcomes == {"yes", "no", "exit_nonzero"}

\* subprocess.run(cmd, capture_output=...) begins for caller
Running(caller, url) ==
    [state |-> "running", caller |-> caller, url |-> url, started |-> time_time]

\* simple_main_clean's handler up to the subprocess.run of run_task
BeginAnalyze(url, title) ==
    /\ goose_process.state = "none"
    /\ goose_process' = Running("analyze_distraction", url)
    /\ op' = "analyze_distraction_clean"
    /\ ret' = "pending"
    /\ calls' = 1
    /\ response' = NoResponse
    /\ status' = NoStatus
    /\ pruned' = 0
    /\ UNCHANGED <<datetime_now, dayVars, gestureVars, sessionVars, prefVars, trackerVars,
                   hook_log, request, clock_hour, pref_call, threads>>

\* log_distraction up to the subprocess.run of start_intervention's run_task,
\* or to its end when no intervention is due
BeginLog(url, title) ==
    /\ goose_process.state = "none"
    /\ Len(distractions) < MaxEvents
    /\ LET r == log_distraction(distractions, url, title, time_time, "no")
       IN  /\ distractions' = r.distractions
           /\ calls' = r.calls
           /\ goose_process' = IF r.calls = 1 THEN Running("start_intervention", url)
                               ELSE NoProcess
           /\ ret' = IF r.calls = 1 THEN "pending" ELSE r.ret
    /\ pruned' = Len(distractions) + 1 - Len(distractions')
    /\ op' = "log_distraction"
    /\ status' = NoStatus
    /\ response' = NoResponse
    /\ UNCHANGED <<datetime_now, dayVars, gestureVars, sessionVars, prefVars, time_time,
                   analysis_enabled, hook_log, request, clock_hour, pref_call, threads>>

\* the goose process exits; subprocess.run returns and the caller finishes
AgentExits(outcome) ==
    /\ goose_process.state = "running"
    /\ goose_process' = NoProcess
    /\ IF goose_process.caller = "analyze_distraction"
       THEN /\ response' = analyze_distraction_clean(goose_process.url, "A", outcome).response
            /\ ret' = "response"
       ELSE /\ response' = NoResponse
            /\ ret' = start_intervention(distractions, outcome)
    /\ UNCHANGED <<datetime_now, dayVars, gestureVars, sessionVars, prefVars, trackerVars,
                   op, calls, status, pruned, hook_log, request, clock_hour, pref_call,
                   threads>>

AgentNext ==
    \/ TrackerTick
    \/ \E url \in TrackerUrls, title \in Titles : BeginAnalyze(url, title)
    \/ \E url \in TrackerUrls, title \in Titles : BeginLog(url, title)
    \/ \E outcome \in ExitOutcomes : AgentExits(outcome)

AgentSpec == Init /\ [][AgentNext]_vars

(***************************************************************************)
(* SessionThreadSpec: start_focus_session called on several threads (the   *)
(* threaded Flask server of main.py, the gesture callbacks). The method    *)
(* takes no lock, so the threads interleave between its statements.        *)
(***************************************************************************)
\* if self.current_state != SessionState.IDLE: return False
FocusCheck(t, duration_minutes) ==
    /\ threads[t].pc = "none"
    /\ threads' = [threads EXCEPT ![t] =
          IF current_state # "idle"
          THEN [@ EXCEPT !.pc = "done", !.duration = duration_minutes, !.ret = "False"]
          ELSE [@ EXCEPT !.pc = "set_state", !.duration = duration_minutes]]
    /\ UNCHANGED <<datetime_now, dayVars, gestureVars, sessionVars, prefVars, trackerVars, callVars>>

\* self.current_state = SessionState.FOCUS
FocusSetState(t) ==
    /\ threads[t].pc = "set_state"
    /\ current_state' = "focus"
    /\ threads' = [threads EXCEPT ![t].pc = "set_start_time"]
    /\ UNCHANGED <<datetime_now, dayVars, gestureVars, session_start_time, session_duration, timers,
                   timer_live, daily_stats, stats_file, session_callbacks,
                   prefVars, trackerVars, callVars>>

\* self.session_start_time = datetime.now()
FocusSetStartTime(t) ==
    /\ threads[t].pc = "set_start_time"
    /\ session_start_time' = datetime_now
    /\ threads' = [threads EXCEPT ![t].pc = "set_duration", ![t].now = datetime_now]
    /\ UNCHANGED <<datetime_now, dayVars, gestureVars, current_state, session_duration, timers,
                   timer_live, daily_stats, stats_file, session_callbacks,
                   prefVars, trackerVars, callVars>>

\* self.session_duration = duration_minutes
FocusSetDuration(t) ==
    /\ threads[t].pc = "set_duration"
    /\ session_duration' = threads[t].duration
    /\ threads' = [threads EXCEPT ![t].pc = "start_timer"]
    /\ UNCHANGED <<datetime_now, dayVars, gestureVars, current_state, session_start_time, timers,
                   timer_live, daily_stats, stats_file, session_callbacks,
                   prefVars, trackerVars, callVars>>

\* self.session_timer = threading.Timer(...); start(); callbacks; return True
FocusStartTimer(t) ==
    /\ threads[t].pc = "start_timer"
    /\ timers' = Append(timers, [kind |-> "focus",
                                 deadline |-> datetime_now + threads[t].duration])
    /\ timer_live' = TRUE
    /\ threads' = [threads EXCEPT ![t].pc = "done", ![t].ret = "True"]
    /\ UNCHANGED <<datetime_now, dayVars, gestureVars, current_state, session_start_time,
                   session_duration, daily_stats, stats_file, session_callbacks,
                   prefVars, trackerVars, callVars>>

SessionThreadNext ==
    \/ HookTick
    \/ \E t \in Threads, d \in Durations : FocusCheck(t, d)
    \/ \E t \in Threads : FocusSetState(t)
    \/ \E t \in Threads : FocusSetStartTime(t)
    \/ \E t \in Threads : FocusSetDuration(t)
    \/ \E t \in Threads : FocusStartTimer(t)

SessionThreadSpec == Init /\ [][SessionThreadNext]_vars

(***************************************************************************)
(* TrackerThreadSpec: log_distraction, should_intervene and get_status     *)
(* called on several threads (the threaded Flask server of simple_main.py).*)
(* The tracker takes no lock. list.append is one step; the comprehension   *)
(* of _get_recent_distractions reads the list, and the assignment to       *)
(* self.distractions is a later step. The agent call that follows the      *)
(* second reading of log_distraction is the subject of AgentSpec.          *)
(***************************************************************************)
\* the event a thread's log_distraction appended
EventOf(t) == [url |-> threads[t].url, title |-> "A", timestamp |-> threads[t].now]

nonTrackerVars == <<datetime_now, dayVars, gestureVars, sessionVars, prefVars, callVars>>

\* log_distraction: self.distractions.append(distraction)
LogAppend(t, url) ==
    /\ threads[t].pc = "none"
    /\ Len(distractions) < MaxEvents
    /\ distractions' = Append(distractions,
                              [url |-> url, title |-> "A", timestamp |-> time_time])
    /\ threads' = [threads EXCEPT ![t].pc = "filter", ![t].url = url,
                                  ![t].now = time_time]
    /\ UNCHANGED <<nonTrackerVars, time_time, analysis_enabled>>

\* should_intervene or get_status begins: the comprehension is evaluated
ReadFilter(t) ==
    /\ threads[t].pc = "none"
    /\ threads' = [threads EXCEPT ![t].pc = "store_read",
          ![t].recent = SelectSeq(distractions,
                                  LAMBDA d : d.timestamp > time_time - detection_window)]
    /\ UNCHANGED <<nonTrackerVars, trackerVars>>

\* the comprehension of _get_recent_distractions within log_distraction
LogFilter(t) ==
    /\ threads[t].pc \in {"filter", "filter_again"}
    /\ threads' = [threads EXCEPT
          ![t].pc = IF @ = "filter" THEN "store" ELSE "store_again",
          ![t].recent = SelectSeq(distractions,
                                  LAMBDA d : d.timestamp > time_time - detection_window)]
    /\ UNCHANGED <<nonTrackerVars, trackerVars>>

\* self.distractions = <the filtered list>; return self.distractions
Store(t) ==
    /\ threads[t].pc \in {"store", "store_again", "store_read"}
    /\ distractions' = threads[t].recent
    /\ threads' = [threads EXCEPT
          ![t].pc = IF @ = "store" /\ Len(threads[t].recent) >= intervention_threshold
                    THEN "filter_again" ELSE "done",
          ![t].ret = IF Len(threads[t].recent) >= intervention_threshold
                     THEN "True" ELSE "False"]
    /\ UNCHANGED <<nonTrackerVars, time_time, analysis_enabled>>

TrackerThreadNext ==
    \/ TrackerTick
    \/ \E t \in Threads, url \in TrackerUrls : LogAppend(t, url)
    \/ \E t \in Threads : ReadFilter(t)
    \/ \E t \in Threads : LogFilter(t)
    \/ \E t \in Threads : Store(t)

TrackerThreadSpec == Init /\ [][TrackerThreadNext]_vars

(***************************************************************************)
(* SessionRaceSpec: a timer's callback on its timer thread together with   *)
(* end_current_session on a request thread. Neither takes a lock, so they  *)
(* interleave between the statements of end_current_session,               *)
(* _complete_focus_session and _on_break_session_end. A thread's locals:   *)
(* now is the session_start_time it subtracted, duration the elapsed       *)
(* minutes it computed. No callback is registered (main.py registers none).*)
(***************************************************************************)
otherVars == <<datetime_now, dayVars, gestureVars, prefVars, trackerVars, callVars>>

\* threading.Timer: the interval is over and the timer thread calls the function
TimerRuns(t, i) ==
    /\ threads[t].pc = "none"
    /\ timers[i].deadline <= datetime_now
    /\ timers' = TimerTaken(Self, i).timers
    /\ timer_live' = TimerTaken(Self, i).timer_live
    /\ threads' = [threads EXCEPT
          ![t].pc = IF timers[i].kind = "focus" THEN "focus_check" ELSE "break_check",
          ![t].call = "timer"]
    /\ UNCHANGED <<otherVars, current_state, session_start_time, session_duration,
                   daily_stats, stats_file, session_callbacks>>

\* end_current_session: if self.current_state == SessionState.IDLE: return False
EndCheck(t) ==
    /\ threads[t].pc = "none"
    /\ threads' = [threads EXCEPT ![t] =
          IF current_state = "idle"
          THEN [@ EXCEPT !.pc = "done", !.call = "end_current_session", !.ret = "False"]
          ELSE [@ EXCEPT !.pc = "end_cancel", !.call = "end_current_session"]]
    /\ UNCHANGED <<otherVars, sessionVars>>

\* if self.session_timer: self.session_timer.cancel()
EndCancel(t) ==
    /\ threads[t].pc = "end_cancel"
    /\ timers' = cancel_session_timer(Self).timers
    /\ timer_live' = cancel_session_timer(Self).timer_live
    /\ threads' = [threads EXCEPT ![t].pc = "end_dispatch"]
    /\ UNCHANGED <<otherVars, current_state, session_start_time, session_duration,
                   daily_stats, stats_file, session_callbacks>>

\* if FOCUS: self._on_focus_session_end() elif BREAK: self._on_break_session_end()
EndDispatch(t) ==
    /\ threads[t].pc = "end_dispatch"
    /\ threads' = [threads EXCEPT ![t] =
          IF current_state = "focus" THEN [@ EXCEPT !.pc = "focus_check"]
          ELSE IF current_state = "break" THEN [@ EXCEPT !.pc = "break_check"]
          ELSE [@ EXCEPT !.pc = "done", !.ret = "True"]]
    /\ UNCHANGED <<otherVars, sessionVars>>

\* if self.session_start_time: (of _complete_focus_session and _on_break_session_end)
StartTimeCheck(t) ==
    /\ threads[t].pc \in {"focus_check", "break_check"}
    /\ threads' = [threads EXCEPT ![t].pc =
          IF @ = "focus_check"
          THEN (IF session_start_time # None THEN "focus_elapsed" ELSE "focus_idle")
          ELSE (IF session_start_time # None THEN "break_elapsed" ELSE "break_idle")]
    /\ UNCHANGED <<otherVars, sessionVars>>

\* elapsed = (datetime.now() - self.session_start_time).total_seconds() / 60;
\* datetime - None raises TypeError, which ends the call
Elapsed(t) ==
    /\ threads[t].pc \in {"focus_elapsed", "break_elapsed"}
    /\ threads' = [threads EXCEPT ![t] =
          IF session_start_time = None
          THEN [@ EXCEPT !.pc = "done", !.ret = "TypeError"]
          ELSE [@ EXCEPT !.pc = IF @ = "focus_elapsed" THEN "focus_add" ELSE "break_add",
                         !.now = session_start_time,
                         !.duration = datetime_now - session_start_time]]
    /\ UNCHANGED <<otherVars, sessionVars>>

\* self.daily_stats["focus_minutes"] += elapsed / self.daily_stats["break_minutes"] += elapsed
AddMinutes(t) ==
    /\ threads[t].pc \in {"focus_add", "break_add"}
    /\ daily_stats' = IF threads[t].pc = "focus_add"
                      THEN [daily_stats EXCEPT !.focus_minutes = @ + threads[t].duration]
                      ELSE [daily_stats EXCEPT !.break_minutes = @ + threads[t].duration]
    /\ threads' = [threads EXCEPT
          ![t].pc = IF @ = "focus_add" THEN "focus_count" ELSE "break_idle",
          ![t].added = IF threads[t].pc = "focus_add" THEN "focus_minutes"
                       ELSE "break_minutes"]
    /\ UNCHANGED <<otherVars, current_state, session_start_time, session_duration,
                   timers, timer_live, stats_file, session_callbacks>>

\* self.daily_stats["sessions_completed"] += 1
CountSession(t) ==
    /\ threads[t].pc = "focus_count"
    /\ daily_stats' = [daily_stats EXCEPT !.sessions_completed = @ + 1]
    /\ threads' = [threads EXCEPT ![t].pc = "focus_idle"]
    /\ UNCHANGED <<otherVars, current_state, session_start_time, session_duration,
                   timers, timer_live, stats_file, session_callbacks>>

\* self.current_state = SessionState.IDLE
SetIdle(t) ==
    /\ threads[t].pc \in {"focus_idle", "break_idle"}
    /\ current_state' = "idle"
    /\ threads' = [threads EXCEPT ![t].pc = IF @ = "focus_idle" THEN "focus_clear"
                                            ELSE "break_clear"]
    /\ UNCHANGED <<otherVars, session_start_time, session_duration, daily_stats,
                   timers, timer_live, stats_file, session_callbacks>>

\* self.session_start_time = None
ClearStartTime(t) ==
    /\ threads[t].pc \in {"focus_clear", "break_clear"}
    /\ session_start_time' = None
    /\ threads' = [threads EXCEPT ![t].pc = IF @ = "focus_clear" THEN "start_break"
                                            ELSE "save_stats"]
    /\ UNCHANGED <<otherVars, current_state, session_duration, daily_stats,
                   timers, timer_live, stats_file, session_callbacks>>

\* _on_focus_session_end: the session_end callbacks, then self.start_break_session(5)
AutoStartBreak(t) ==
    /\ threads[t].pc = "start_break"
    /\ SetFields(start_break_session(Self, DefaultBreak, datetime_now))
    /\ threads' = [threads EXCEPT
          ![t].pc = "done",
          ![t].ret = IF threads[t].call = "timer" THEN "None" ELSE "True"]
    /\ UNCHANGED otherVars

\* _on_break_session_end: the break_end callbacks, then self._save_stats()
SaveStats(t) ==
    /\ threads[t].pc = "save_stats"
    /\ SetFields(save_stats(Self, today))
    /\ threads' = [threads EXCEPT
          ![t].pc = "done",
          ![t].ret = IF threads[t].call = "timer" THEN "None" ELSE "True"]
    /\ UNCHANGED otherVars

SessionRaceNext ==
    \/ HookTick
    \/ \E d \in Durations : HookStartFocus(d)
    \/ \E d \in Durations : HookStartBreak(d)
    \/ \E t \in Threads, i \in 1..Len(timers) : TimerRuns(t, i)
    \/ \E t \in Threads : EndCheck(t)
    \/ \E t \in Threads : EndCancel(t)
    \/ \E t \in Threads : EndDispatch(t)
    \/ \E t \in Threads : StartTimeCheck(t)
    \/ \E t \in Threads : Elapsed(t)
    \/ \E t \in Threads : AddMinutes(t)
    \/ \E t \in Threads : CountSession(t)
    \/ \E t \in Threads : SetIdle(t)
    \/ \E t \in Threads : ClearStartTime(t)
    \/ \E t \in Threads : AutoStartBreak(t)
    \/ \E t \in Threads : SaveStats(t)

SessionRaceSpec == Init /\ [][SessionRaceNext]_vars

(***************************************************************************)
(* StaleTimerSpec: the session machine over several focus sessions, with   *)
(* the timers that start_break_session left pending                        *)
(***************************************************************************)
StaleTick ==
    /\ datetime_now < MaxStaleMinutes
    /\ Tick

\* start_focus_session, also after sessions were completed
StartFocusAgain(d) ==
    /\ Len(timers) < MaxTimers
    /\ daily_stats.sessions_completed < MaxCompleted
    /\ SetSelf(start_focus_session(Self, d, datetime_now))
    /\ Observe("start_focus_session", 0, NoResponse)
    /\ UNCHANGED <<datetime_now, dayVars, gestureVars, prefVars, trackerVars>>

StaleTimerNext ==
    \/ StaleTick
    \/ \E d \in HookDurations : StartFocusAgain(d)
    \/ \E d \in Durations : StartBreak(d)
    \/ EndCurrentSession
    \/ \E i \in 1..Len(timers) : FocusTimerExpires(i)
    \/ \E i \in 1..Len(timers) : BreakTimerExpires(i)

StaleTimerSpec == Init /\ [][StaleTimerNext]_vars

(***************************************************************************)
(* DrainSpec: session commands arrive during the first MaxCommandMinutes   *)
(* and then stop; time goes on while a timer is pending, and a timer whose *)
(* interval is over runs its callback (threading.Timer).                   *)
(***************************************************************************)
CommandsOpen == datetime_now < MaxCommandMinutes

DrainTick ==
    /\ CommandsOpen \/ timers # <<>>
    /\ \A i \in 1..Len(timers) : timers[i].deadline > datetime_now
    /\ datetime_now' = datetime_now + 1
    /\ UNCHANGED <<dayVars, gestureVars, sessionVars, prefVars, trackerVars, obsVars>>

DrainStartFocus(d) == CommandsOpen /\ StartFocus(d)

DrainStartBreak(d) == CommandsOpen /\ StartBreak(d)

DrainEndCurrentSession == CommandsOpen /\ EndCurrentSession

DrainNext ==
    \/ DrainTick
    \/ \E d \in Durations : DrainStartFocus(d)
    \/ \E d \in Durations : DrainStartBreak(d)
    \/ DrainEndCurrentSession
    \/ \E i \in 1..Len(timers) : FocusTimerExpires(i)
    \/ \E i \in 1..Len(timers) : BreakTimerExpires(i)

DrainSpec ==
    /\ Init
    /\ [][DrainNext]_vars
    /\ WF_vars(DrainTick)
    /\ WF_vars(\E i \in 1..Len(timers) : FocusTimerExpires(i))
    /\ WF_vars(\E i \in 1..Len(timers) : BreakTimerExpires(i))

(***************************************************************************)
(* GestureRecognizer, as functions of the object's fields                  *)
(*   g = [gesture_history, last_sequence_trigger_time, last_gesture_time,  *)
(*        latest_gesture, url_analysis_calls]; current_time is time.time() *)
(*   in seconds.                                                           *)
(***************************************************************************)
gesture_cooldown == 2
sequence_cooldown == 5
history_max_length == 3

fist_open_closed == <<"closed", "open", "closed">>
open_closed_fist == <<"open", "closed", "open">>

\* seq[-n:]
LastN(seq, n) == SubSeq(seq, Max(1, Len(seq) - n + 1), Len(seq))

\* mutant: the cooldown of sequence triggers is not tested
check_for_sequence_no_cooldown(g, current_time) ==
    IF \/ LastN(g.gesture_history, Len(fist_open_closed)) = fist_open_closed
       \/ LastN(g.gesture_history, Len(open_closed_fist)) = open_closed_fist
    THEN [g EXCEPT !.url_analysis_calls = @ + 1,
                   !.gesture_history = <<>>,
                   !.last_sequence_trigger_time = current_time]
    ELSE g

check_for_sequence(g, current_time) ==
    IF current_time - g.last_sequence_trigger_time < sequence_cooldown
    THEN g
    ELSE IF \/ LastN(g.gesture_history, Len(fist_open_closed)) = fist_open_closed
            \/ LastN(g.gesture_history, Len(open_closed_fist)) = open_closed_fist
         THEN [g EXCEPT !.url_analysis_calls = @ + 1,
                        !.gesture_history = <<>>,
                        !.last_sequence_trigger_time = current_time]
         ELSE g

\* the callbacks registered for single gestures change no field of the recognizer
handle_gesture(g, gesture, current_time) ==
    IF /\ g.last_gesture_time[gesture] # None
       /\ current_time - g.last_gesture_time[gesture] < gesture_cooldown
    THEN g
    ELSE LET appended == Append(g.gesture_history, gesture)
             noted == [g EXCEPT
                 !.last_gesture_time[gesture] = current_time,
                 !.latest_gesture = gesture,
                 !.gesture_history = IF Len(appended) > history_max_length
                                     THEN Tail(appended) ELSE appended]
         IN  check_for_sequence(noted, current_time)

(***************************************************************************)
(* GestureSpec: the recognition loop hands the gestures it detects to      *)
(* _handle_gesture, one at a time, as the seconds pass                     *)
(***************************************************************************)
GestureTick ==
    /\ time_time < MaxGestureSeconds
    /\ time_time' = time_time + 1
    /\ UNCHANGED <<datetime_now, dayVars, gestureVars, sessionVars, prefVars, distractions,
                   analysis_enabled, obsVars>>

HandleGesture(gesture) ==
    /\ LET g == handle_gesture([gesture_history |-> gesture_history,
                                last_sequence_trigger_time |-> last_sequence_trigger_time,
                                last_gesture_time |-> last_gesture_time,
                                latest_gesture |-> latest_gesture,
                                url_analysis_calls |-> 0],
                               gesture, time_time)
       IN  /\ gesture_history' = g.gesture_history
           /\ last_sequence_trigger_time' = g.last_sequence_trigger_time
           /\ last_gesture_time' = g.last_gesture_time
           /\ latest_gesture' = g.latest_gesture
           /\ url_analysis_calls' = g.url_analysis_calls
    /\ UNCHANGED <<datetime_now, dayVars, sessionVars, prefVars, trackerVars, obsVars>>

\* GET /gesture/latest: get_latest_gesture reads latest_gesture and clears it
GetLatestGesture ==
    /\ latest_gesture' = NoGesture
    /\ url_analysis_calls' = 0
    /\ UNCHANGED <<gesture_history, last_sequence_trigger_time, last_gesture_time>>
    /\ UNCHANGED <<datetime_now, dayVars, sessionVars, prefVars, trackerVars, obsVars>>

\* the gestures the loop detects here: the two of the sequences and one other
DetectedGestures == {"open", "closed", "thumbs_up"}

GestureNext ==
    \/ GestureTick
    \/ \E gesture \in DetectedGestures : HandleGesture(gesture)
    \/ GetLatestGesture

GestureSpec == Init /\ [][GestureNext]_vars

(***************************************************************************)
(* Properties                                                              *)
(***************************************************************************)
\* stored events whose timestamp lies inside the detection window at time_time
InWindow == {i \in DOMAIN distractions :
                distractions[i].timestamp > time_time - detection_window}

\* stored events whose age is at most the detection window
NotOlder == {i \in DOMAIN distractions :
                time_time - distractions[i].timestamp <= detection_window}

InterventionReturns == {"output", "Intervention failed", "Intervention error"}

\* C1: after every session operation and timer expiry, session_start_time is
\* set if and only if the phase is not idle.
C1_StartTimeIffNotIdle ==
    (session_start_time # None) <=> (current_state # "idle")

C1_Witness ==
    /\ op = "break_timer"
    /\ current_state = "idle"
    /\ session_start_time = None
    /\ daily_stats.sessions_completed >= 1
    /\ daily_stats.break_minutes = DefaultBreak

\* C2: start_focus_session called while a focus or break session runs returns
\* False and leaves phase, start time, planned duration, statistics and the
\* pending timers as they were.
C2_StartFocusRejected ==
    [][\A d \in Durations :
          (StartFocus(d) /\ current_state # "idle")
             => (ret' = "False" /\ UNCHANGED sessionVars)]_vars

C2_Witness ==
    /\ op = "start_focus_session"
    /\ ret = "False"
    /\ current_state = "focus"
    /\ session_duration = 2
    /\ Len(timers) = 1

\* C3: the stored sequence never holds two events of the same URL that are
\* both inside the detection window.
C3_NoDuplicateUrlInWindow ==
    \A i, j \in InWindow : distractions[i].url = distractions[j].url => i = j

\* C4: every log_distraction call that leaves at least intervention_threshold
\* events in the window (the new one included) starts an intervention, whatever
\* the calls before it did.
C4_NoCooldown ==
    [][\A url \in TrackerUrls, title \in Titles, outcome \in AgentOutcomes :
          (LogDistraction(url, title, outcome)
             /\ Cardinality(InWindow) + 1 >= intervention_threshold)
             => (calls' = 1 /\ ret' \in InterventionReturns)]_vars

C4_Witness ==
    /\ op = "log_distraction"
    /\ calls = 1
    /\ Len(distractions) = intervention_threshold + 1
    /\ \A i \in DOMAIN distractions : distractions[i].timestamp = time_time

\* C5: should_intervene answers True exactly when the number of stored events
\* inside the detection window is at least intervention_threshold.
C5_ThresholdCheck ==
    [][ShouldIntervene
          => (ret' = "True" <=> Cardinality(InWindow) >= intervention_threshold)]_vars

C5_Witness ==
    /\ op = "should_intervene"
    /\ ret = "True"
    /\ Len(distractions) = intervention_threshold

\* C6: an event older than detection_window is counted neither by get_status
\* nor by the threshold check.
C6_OldEventsNotCounted ==
    [][/\ GetStatus => /\ status'.recent_distractions = Cardinality(InWindow)
                       /\ status'.total_distractions = Cardinality(InWindow)
                       /\ InWindow \subseteq NotOlder
       /\ (ShouldIntervene /\ Cardinality(NotOlder) < intervention_threshold)
             => ret' = "False"]_vars

C6_Witness ==
    /\ op = "get_status"
    /\ pruned = 1
    /\ status.recent_distractions = 1
    /\ time_time - distractions[1].timestamp < detection_window

\* C7: log_distraction returns None without raising when the events in the
\* window, the new one included, are fewer than intervention_threshold.
C7_LogReturnsNone ==
    (op = "log_distraction" /\ Len(distractions) < intervention_threshold)
       => ret = "None"

\* C8: while analysis_enabled is false log_distraction returns None, appends
\* nothing and calls no agent.
C8_DisabledLogIsNoOp ==
    [][\A url \in TrackerUrls, title \in Titles, outcome \in AgentOutcomes :
          (LogDistraction(url, title, outcome) /\ ~analysis_enabled)
             => (distractions' = distractions /\ calls' = 0 /\ ret' = "None")]_vars

\* C9: a content check answers close_tab exactly when the phase is focus and
\* the verdict is DISTRACTION with confidence above 0.6, and then
\* distractions_blocked grows by one; otherwise it answers allow and
\* distractions_blocked keeps its value.
C9_CloseTabGate ==
    [][op' = "analyze_content"
          => /\ response'.action = "close_tab"
                  <=> /\ current_state = "focus"
                      /\ response'.decision = "DISTRACTION"
                      /\ response'.confidence > 60
             /\ response'.action = "close_tab"
                  => daily_stats'.distractions_blocked = daily_stats.distractions_blocked + 1
             /\ response'.action # "close_tab"
                  => /\ response'.action = "allow"
                     /\ daily_stats'.distractions_blocked = daily_stats.distractions_blocked]_vars

C9_Witness ==
    /\ op = "analyze_content"
    /\ response.action = "close_tab"
    /\ response.confidence = 70
    /\ current_state = "focus"
    /\ daily_stats.distractions_blocked = 1

\* C10: a request whose collaborator failed is answered with action allow.
C10_FailOpenAction ==
    (op \in {"analyze_content", "analyze_distraction"} /\ response.code = 500)
       => response.action = "allow"

\* C11: start_break_session called during focus adds the elapsed minutes of the
\* focus session to focus_minutes and one to sessions_completed, then enters
\* break with a fresh start time; called while idle it changes no statistic;
\* called during a break it returns False and changes nothing.
C11_StartBreakFinalizesFocus ==
    [][\A d \in Durations :
          StartBreak(d) =>
            /\ current_state = "focus" =>
                  /\ daily_stats'.focus_minutes
                        = daily_stats.focus_minutes + (datetime_now - session_start_time)
                  /\ daily_stats'.sessions_completed = daily_stats.sessions_completed + 1
                  /\ daily_stats'.break_minutes = daily_stats.break_minutes
                  /\ daily_stats'.distractions_blocked = daily_stats.distractions_blocked
                  /\ current_state' = "break"
                  /\ session_start_time' = datetime_now
                  /\ ret' = "True"
            /\ current_state = "idle" =>
                  /\ daily_stats' = daily_stats
                  /\ current_state' = "break"
                  /\ session_start_time' = datetime_now
                  /\ ret' = "True"
            /\ current_state = "break" =>
                  /\ ret' = "False"
                  /\ UNCHANGED sessionVars]_vars

C11_Witness ==
    /\ op = "start_break_session"
    /\ ret = "True"
    /\ current_state = "break"
    /\ daily_stats.sessions_completed = 1
    /\ daily_stats.focus_minutes = 1
    /\ session_start_time = datetime_now
    /\ Len(timers) = 2

C14_EndLikeExpiry ==
    [][EndCurrentSession =>
         /\ current_state = "idle" => (ret' = "False" /\ UNCHANGED sessionVars)
         /\ current_state # "idle" =>
               /\ ret' = "True"
               /\ timer_live
         /\ current_state = "focus" =>
               /\ current_state' = "break"
               /\ session_start_time' # None
               /\ daily_stats' = [daily_stats EXCEPT
                      !.focus_minutes = @ + (datetime_now - session_start_time),
                      !.sessions_completed = @ + 1]
               /\ timers' = Append(SubSeq(timers, 1, Len(timers) - 1),
                                   [kind |-> "break", deadline |-> datetime_now + DefaultBreak])
         /\ current_state = "break" =>
               /\ current_state' = "idle"
               /\ session_start_time' = None
               /\ daily_stats' = [daily_stats EXCEPT
                      !.break_minutes = @ + (datetime_now - session_start_time)]
               /\ timers' = SubSeq(timers, 1, Len(timers) - 1)]_vars

C14_Witness ==
    /\ op = "end_current_session"
    /\ ret = "True"
    /\ current_state = "break"
    /\ daily_stats.sessions_completed = 1
    /\ daily_stats.focus_minutes = 1
    /\ timers = <<[kind |-> "break", deadline |-> datetime_now + DefaultBreak]>>

\* C12: the expiry of a focus timer invokes the session_end callbacks first,
\* each seeing the idle phase, the finalized statistics and no break timer
\* yet, and the break_start callbacks after them, each seeing the break phase
\* with its timer started; when the handler returns the phase is break and
\* the pending session timer is a break timer of DefaultBreak minutes.
C12_FocusExpiryOrder ==
    [][\A i \in 1..Len(timers) :
          FocusTimerExpires(i) =>
            LET n_end == Len(session_callbacks["session_end"])
                n_break == Len(session_callbacks["break_start"])
            IN  /\ Len(hook_log') = n_end + n_break
                /\ \A k \in 1..n_end :
                      /\ hook_log'[k].event = "session_end"
                      /\ hook_log'[k].callback = k
                      /\ hook_log'[k].state = "idle"
                      /\ hook_log'[k].stats = daily_stats'
                      /\ hook_log'[k].pending = Len(timers) - 1
                /\ \A k \in 1..n_break :
                      /\ hook_log'[n_end + k].event = "break_start"
                      /\ hook_log'[n_end + k].callback = k
                      /\ hook_log'[n_end + k].state = "break"
                      /\ hook_log'[n_end + k].stats = daily_stats'
                      /\ hook_log'[n_end + k].pending = Len(timers)
                /\ current_state = "focus" =>
                      daily_stats' = [daily_stats EXCEPT
                         !.focus_minutes = @ + (datetime_now - session_start_time),
                         !.sessions_completed = @ + 1]
                /\ current_state' = "break"
                /\ session_start_time' = datetime_now
                /\ timer_live'
                /\ timers'[Len(timers')]
                      = [kind |-> "break", deadline |-> datetime_now + DefaultBreak]]_vars

C12_Witness ==
    /\ op = "focus_timer"
    /\ Len(hook_log) = 2
    /\ hook_log[1].event = "session_end"
    /\ hook_log[1].stats.sessions_completed = 1
    /\ hook_log[2].event = "break_start"
    /\ current_state = "break"
    /\ session_duration = DefaultBreak

\* the same callbacks, none of them raising
AllReturn(callbacks) ==
    [event \in DOMAIN callbacks |-> [i \in 1..Len(callbacks[event]) |-> "returns"]]

Quiet == [Self EXCEPT !.session_callbacks = AllReturn(@)]

\* the operation left the fields as q has them and called the callbacks q called
SameOutcome(q) ==
    /\ current_state' = q.current_state
    /\ session_start_time' = q.session_start_time
    /\ session_duration' = q.session_duration
    /\ daily_stats' = q.daily_stats
    /\ stats_file' = q.stats_file
    /\ timers' = q.timers
    /\ timer_live' = q.timer_live
    /\ ret' = q.ret
    /\ Len(hook_log') = Len(q.hook_log)
    /\ \A k \in 1..Len(q.hook_log) :
          /\ hook_log'[k].event = q.hook_log[k].event
          /\ hook_log'[k].callback = q.hook_log[k].callback

\* every callback registered for an event the last operation triggered was called
AllInvoked ==
    \A event \in HookEvents :
       LET called == SelectSeq(hook_log, LAMBDA h : h.event = event)
       IN  \/ called = <<>>
           \/ /\ Len(called) = Len(session_callbacks[event])
              /\ \A k \in 1..Len(called) : called[k].callback = k

\* C15: whichever registered callbacks raise, every session operation and
\* timer expiry leaves the phase, the start time, the statistics, the saved
\* document and the timers as it leaves them when no callback raises, and
\* calls every callback registered for the events it triggers.
C15_HooksNeverAbort ==
    [][/\ \A d \in HookDurations :
            HookStartFocus(d) => SameOutcome(start_focus_session(Quiet, d, datetime_now))
       /\ \A d \in HookDurations :
            HookStartBreak(d) => SameOutcome(start_break_session(Quiet, d, datetime_now))
       /\ EndCurrentSession => SameOutcome(end_current_session(Quiet, datetime_now, today))
       /\ \A i \in 1..Len(timers) :
            FocusTimerExpires(i) =>
               SameOutcome([on_focus_session_end(TimerTaken(Quiet, i), datetime_now)
                               EXCEPT !.ret = "None"])
       /\ \A i \in 1..Len(timers) :
            BreakTimerExpires(i) =>
               SameOutcome([on_break_session_end(TimerTaken(Quiet, i), datetime_now, today)
                               EXCEPT !.ret = "None"])
       /\ AllInvoked']_vars

C15_Witness ==
    /\ op = "end_current_session"
    /\ ret = "True"
    /\ current_state = "idle"
    /\ Len(hook_log) = 2
    /\ hook_log[1].event = "break_end" /\ hook_log[1].outcome = "raises"
    /\ hook_log[2].event = "break_end" /\ hook_log[2].outcome = "returns"
    /\ stats_file = [date |-> today, stats |-> daily_stats]

\* the counters in memory are those of the document if it is dated today, zero otherwise
Loaded ==
    /\ stats_file.date = today => daily_stats = stats_file.stats
    /\ stats_file.date # today => daily_stats = ZeroStats

\* C16: when the process starts, daily_stats is the persisted document's
\* statistics only if the document's date is today; with any other date, or
\* with no document, all four counters are zero.
C16_LoadOnlyToday ==
    [][Restart => Loaded']_vars

C16_Witness ==
    /\ op = "init"
    /\ today = 2
    /\ stats_file.date = 1
    /\ stats_file.stats.sessions_completed = 1
    /\ stats_file.stats.focus_minutes = 1
    /\ daily_stats = ZeroStats

\* C17: a document saved under today's date holds nothing that was counted
\* before today began, also when the process has run across midnight.
C17_NoCarryOver ==
    stats_file.date = today => stats_at_midnight = ZeroStats

\* C18: a snapshot whose URL is an entry of work_domains, behind any scheme,
\* with or without www. and with any path, is classified WORK with
\* confidence 0.95, whatever its text, the user's blocked set and the hour.
C18_TrustedDomainIsWork ==
    (op = "classify" /\ request.url \in EntryUrls(work_domains))
       => (response.decision = "WORK" /\ response.confidence = 95)

\* C19: a snapshot whose URL is an entry of distraction_domains is classified
\* DISTRACTION with confidence 0.95 whatever its text, unless its domain is
\* in the user's allowed set, and then it is classified WORK.
C19_KnownDistraction ==
    (op = "classify" /\ request.url \in EntryUrls(distraction_domains))
       => IF request.url.host \in allowed_sites
          THEN response.decision = "WORK"
          ELSE response.decision = "DISTRACTION" /\ response.confidence = 95

\* C20: no domain is in both the allowed and the blocked set, after a load of
\* the saved document and after every add_user_preference; the domain of an
\* override is afterwards in the set the override names and only there, and
\* the other domains stay where they were.
C20_PreferencesExclusive ==
    [][/\ allowed_sites' \cap blocked_sites' = {}
       /\ \A domain \in ClassPrefDomains, decision \in {"WORK", "DISTRACTION"} :
            AddUserPreference(domain, decision) =>
               /\ domain \in allowed_sites' <=> decision = "WORK"
               /\ domain \in blocked_sites' <=> decision = "DISTRACTION"
               /\ allowed_sites' \ {domain} = allowed_sites \ {domain}
               /\ blocked_sites' \ {domain} = blocked_sites \ {domain}
       /\ ReloadPatterns =>
               /\ allowed_sites' = allowed_sites
               /\ blocked_sites' = blocked_sites]_vars

C20_Witness ==
    /\ op = "load_user_patterns"
    /\ allowed_sites = {"9gag.com"}
    /\ blocked_sites = {"github.com"}
    /\ patterns_file = save_user_patterns([allowed |-> allowed_sites,
                                           blocked |-> blocked_sites])


\* C21: add_user_preference(domain, decision) called twice in a row leaves
\* the allowed set, the blocked set and user_patterns.json as the first call
\* left them.
C21_OverrideIdempotent ==
    [][\A domain \in ClassPrefDomains, decision \in {"WORK", "DISTRACTION", "NEUTRAL"} :
          (/\ pref_call.domain = domain
           /\ pref_call.decision = decision
           /\ AddUserPreference(domain, decision))
          => UNCHANGED prefVars]_vars

\* the same decision was recorded twice in a row for a domain that the first
\* call moved out of the other set
C21_Witness ==
    /\ pref_call.repeated
    /\ pref_call.decision = "DISTRACTION"
    /\ pref_call.domain \in blocked_sites
    /\ pref_call.domain \in patterns_file.blocked_sites
    /\ allowed_sites # {}


\* the totals _make_final_decision forms for the snapshot classified last
TotalWork ==
    request.kw_work + Max(0, request.youtube_score)
        + analyze_context(request.url, clock_hour)

TotalDistraction == request.kw_distraction + Max(0, -request.youtube_score)

\* the last classification reached the scoring: no field was wrongly typed
\* and the domain is in none of the four domain sets
Scored ==
    /\ op = "classify"
    /\ request.bad = "none"
    /\ extract_domain(request.url) \notin
          (work_domains \cup distraction_domains \cup allowed_sites \cup blocked_sites)

\* C22: without a domain short-circuit the verdict is WORK iff totalWork >= 2
\* and totalWork > totalDistraction, DISTRACTION iff totalDistraction >= 2 and
\* totalDistraction > totalWork, each with confidence min(0.9, 0.6 + 0.1 * the
\* difference), and otherwise NEUTRAL with confidence 0.3; a tie is NEUTRAL.
C22_FinalDecision ==
    Scored =>
        /\ response.decision = "WORK"
              <=> (TotalWork >= 2 /\ TotalWork > TotalDistraction)
        /\ response.decision = "DISTRACTION"
              <=> (TotalDistraction >= 2 /\ TotalDistraction > TotalWork)
        /\ response.decision = "WORK"
              => response.confidence = Min(90, 60 + 10 * (TotalWork - TotalDistraction))
        /\ response.decision = "DISTRACTION"
              => response.confidence = Min(90, 60 + 10 * (TotalDistraction - TotalWork))
        /\ response.decision \notin {"WORK", "DISTRACTION"}
              => (response.decision = "NEUTRAL" /\ response.confidence = 30)
        /\ TotalWork = TotalDistraction => response.decision = "NEUTRAL"

\* a tie of two totals that each reach the threshold of 2 was classified
C22_Witness ==
    /\ Scored
    /\ TotalWork = TotalDistraction
    /\ TotalWork >= 2
    /\ request.youtube_score < 0
    /\ response.decision = "NEUTRAL"


\* a statement of the last classification raised: the title or the url was
\* None, or the headings held a non-string and the domain is in none of the
\* domain sets, so that the texts were combined
StepRaised ==
    /\ op = "classify"
    /\ \/ request.bad \in {"title", "url"}
       \/ /\ request.bad = "headings"
          /\ extract_domain(request.url) \notin
                (work_domains \cup distraction_domains \cup allowed_sites \cup blocked_sites)

\* C23: analyze_content returns to its caller on every input, and when a
\* scoring step raised, what it returns is NEUTRAL with confidence 0.0.
C23_NeverPropagates ==
    /\ op = "classify" => ret = "result"
    /\ StepRaised => (response.decision = "NEUTRAL" /\ response.confidence = 0)

\* non-string headings were classified on a domain that has no short-circuit
C23_Witness ==
    /\ StepRaised
    /\ request.bad = "headings"
    /\ request.kw_distraction = MaxScore
    /\ ret = "result"
    /\ response.decision = "NEUTRAL"
    /\ response.confidence = 0


\* C24: two classifications of the same snapshot under the same preference
\* sets return the same decision and confidence, whatever the hour of each,
\* and no classification changes the preference sets.
C24_Deterministic ==
    [][op' = "classify" =>
          /\ UNCHANGED <<allowed_sites, blocked_sites>>
          /\ (op = "classify" /\ request' = request)
                => /\ response'.decision = response.decision
                   /\ response'.confidence = response.confidence]_vars


\* simple_main's handler gets as far as asking the agent: log_distraction returned
Asked(url, title, intervention_outcome) ==
    log_distraction(distractions, url, title, time_time, intervention_outcome).ret
        # "UnboundLocalError"

\* C25: when /analyze-distraction asks the agent for YES or NO, is_distraction
\* is true iff the agent's output holds "YES", analysis is "YES" iff
\* is_distraction, action is close_tab iff is_distraction, and simple_main and
\* simple_main_clean give the same is_distraction for the same output.
C25_YesNoMode ==
    [][\A url \in TrackerUrls, title \in Titles, intervention_outcome \in AgentOutcomes,
          analysis_outcome \in AnalysisOutcomes \ {"oserror"} :
          (/\ analysis_enabled
           /\ \/ /\ Asked(url, title, intervention_outcome)
                 /\ AnalyzeDistraction(url, title, intervention_outcome, analysis_outcome)
              \/ AnalyzeDistractionClean(url, title, analysis_outcome))
          => /\ response'.is_distraction <=> HasYes(analysis_outcome)
             /\ response'.analysis = "YES" <=> response'.is_distraction
             /\ response'.action = "close_tab" <=> response'.is_distraction
             /\ analyze_distraction_clean(url, title, analysis_outcome).response.is_distraction
                   <=> response'.is_distraction]_vars


\* C26: the context handed to the agent when an intervention fires is one
\* entry "- {title} ({url}) at {datetime}" per event in the window, in
\* insertion order, with a newline between consecutive entries.
C26_ContextBlock ==
    [][\A url \in TrackerUrls, title \in Titles, outcome \in AgentOutcomes :
          (LogDistraction(url, title, outcome) /\ calls' = 1)
          => log_distraction(distractions, url, title, time_time, outcome).context
                = str_join("\n", [i \in 1..Len(distractions') |-> Entry(distractions'[i])])]_vars


\* new is old with some events left out: what remains keeps its order
Kept(old, new) ==
    \E f \in [1..Len(new) -> 1..Len(old)] :
        /\ \A i, j \in 1..Len(new) : i < j => f[i] < f[j]
        /\ \A i \in 1..Len(new) : old[f[i]] = new[i]

\* every stored event is younger than detection_window at time_time
AllRecent(ds) == \A i \in DOMAIN ds : ds[i].timestamp > time_time - detection_window

\* C27: right after the threshold check, get_status or log_distraction has read
\* the recent events at time_time, self.distractions holds no event with
\* timestamp <= time_time - detection_window, and the events it still holds
\* are in the order they had.
C27_EagerPruning ==
    [][/\ (ShouldIntervene \/ GetStatus)
             => (AllRecent(distractions') /\ Kept(distractions, distractions'))
       /\ \A url \in TrackerUrls, title \in Titles, outcome \in AgentOutcomes :
             LogDistraction(url, title, outcome)
             => /\ AllRecent(distractions')
                /\ Kept(Append(distractions,
                               [url |-> url, title |-> title, timestamp |-> time_time]),
                        distractions')]_vars

\* a threshold check dropped an event from the stored sequence and kept two
C27_Witness ==
    /\ op = "should_intervene"
    /\ pruned = 1
    /\ Len(distractions) = 2
    /\ distractions[1].url # distractions[2].url


\* C28: a call to the language agent is over, as a failure if need be, once
\* run_task's timeout has passed since it began, so no caller waits longer.
C28_AgentCallBounded ==
    goose_process.state = "running"
       => time_time - goose_process.started <= run_task_timeout


\* no call is under way on any thread
Quiescent == \A t \in Threads : threads[t].pc \in {"none", "done"}

Succeeded == {t \in Threads : threads[t].pc = "done" /\ threads[t].ret = "True"}

\* C29: of the start_focus_session calls that ran, together or one after
\* another, from the idle phase, exactly one returned True, exactly one timer
\* was started, and session_duration and session_start_time are the ones
\* that call set.
C29_OneFocusStarts ==
    (Quiescent /\ \E t \in Threads : threads[t].pc = "done")
       => /\ Cardinality(Succeeded) = 1
          /\ Len(timers) = 1
          /\ \A t \in Succeeded : /\ session_duration = threads[t].duration
                                  /\ session_start_time = threads[t].now


\* C30: under every interleaving of log_distraction, should_intervene and
\* get_status calls, an event that was appended and is still inside the
\* detection window is in the stored sequence.
C30_NoEventLost ==
    \A t \in Threads :
        (threads[t].url # "" /\ threads[t].now > time_time - detection_window)
           => \E i \in DOMAIN distractions : distractions[i] = EventOf(t)


\* the break that is running was started by the timer's start_break_session call
ScheduledRunningBreak(timer) ==
    /\ current_state = "break"
    /\ timer.deadline = session_start_time + session_duration

\* C32: at most one session timer is pending at any moment; the focus-expiry
\* handler runs only while the phase is focus, and the break-expiry handler
\* only for the break whose start scheduled it.
C32_OneTimerOwnPhase ==
    [][/\ Len(timers') <= 1
       /\ \A i \in 1..Len(timers) :
             /\ FocusTimerExpires(i) => current_state = "focus"
             /\ BreakTimerExpires(i) => ScheduledRunningBreak(timers[i])]_vars


\* C33: sessions_completed is the number of focus sessions that were started
\* and have ended: a step that takes the machine out of a focus session adds
\* one to it, no other step changes it, and focus_minutes changes only in a
\* step that ends a focus session, by the minutes that session ran.
C33_CompletedCountsFocus ==
    [][IF current_state = "focus" /\ current_state' # "focus"
       THEN /\ daily_stats'.sessions_completed = daily_stats.sessions_completed + 1
            /\ daily_stats'.focus_minutes
                  = daily_stats.focus_minutes + (datetime_now - session_start_time)
       ELSE /\ daily_stats'.sessions_completed = daily_stats.sessions_completed
            /\ daily_stats'.focus_minutes = daily_stats.focus_minutes]_vars


\* C31: when a timer's callback and end_current_session run together, the
\* finalization of a session takes effect once: no two threads add the
\* elapsed minutes of the same session (the session that began at the same
\* start time) to the same counter, so that sessions_completed rises by one
\* for it and its hooks fire once.
C31_FinalizedOnce ==
    \A t, u \in Threads :
        (/\ t # u
         /\ threads[t].added # ""
         /\ threads[t].added = threads[u].added)
        => threads[t].now # threads[u].now


\* C34: the phase never goes from focus to idle in one operation, so every
\* path from focus back to idle passes through break; end_current_session
\* called in focus leaves the phase break with a timer of DefaultBreak minutes
\* pending.
C34_FocusEndsInBreak ==
    [][/\ current_state = "focus" => current_state' \in {"focus", "break"}
       /\ (EndCurrentSession /\ current_state = "focus")
             => /\ current_state' = "break"
                /\ timer_live'
                /\ timers'[Len(timers')]
                      = [kind |-> "break", deadline |-> datetime_now + DefaultBreak]]_vars


\* C36: whenever the phase is idle and a break has been finalized (the
\* document has been written), the document's statistics equal daily_stats
\* in all four counters.
C36_IdleStatsSaved ==
    (current_state = "idle" /\ stats_file # NoFile)
       => stats_file.stats = daily_stats


\* C35: once no further session command is issued and every pending timer
\* fires when its interval is over, the machine reaches the idle phase with
\* no pending timer and stays there.
C35_EventuallyIdle ==
    <>[](current_state = "idle" /\ timers = <<>>)

\* the commands are over and the last timer, that of the break a focus timer
\* started, has fired
C35_Witness ==
    /\ ~CommandsOpen
    /\ op = "break_timer"
    /\ current_state = "idle"
    /\ timers = <<>>
    /\ daily_stats.sessions_completed >= 1
    /\ daily_stats.break_minutes >= DefaultBreak


\* the confidences a verdict can carry: 0.0, 0.3, 0.7 to 0.9, and 0.95
VerdictConfidences == {0, 30} \cup 70..90 \cup {95}

\* C37: every DISTRACTION verdict has a confidence above 0.6 (0.95 from the
\* domain short-circuit, 0.7 to 0.9 from scoring), so a content check during
\* focus answers close_tab for every DISTRACTION verdict; and the confidence
\* of every verdict is 0.0, 0.3, 0.95 or lies between 0.7 and 0.9.
C37_DistractionPassesGate ==
    [][op' = "analyze_content" =>
          /\ response'.confidence \in VerdictConfidences
          /\ response'.decision = "DISTRACTION"
                => /\ response'.confidence > 60
                   /\ response'.confidence = 95 \/ response'.confidence \in 70..90
                   /\ current_state = "focus" => response'.action = "close_tab"]_vars

\* a scored DISTRACTION verdict of middle confidence closed the tab during focus
C37_Witness ==
    /\ op = "analyze_content"
    /\ current_state = "focus"
    /\ response.decision = "DISTRACTION"
    /\ response.confidence = 80
    /\ response.action = "close_tab"


\* C38: a snapshot whose domain is in work_domains or in the user's allowed
\* set is classified WORK with confidence 0.95 also when the domain is in the
\* user's blocked set or in distraction_domains: a DISTRACTION override
\* recorded for a trusted work domain does not change its verdict.
C38_WorkCheckFirst ==
    (/\ op = "classify"
     /\ extract_domain(request.url) \in work_domains \cup allowed_sites)
       => (response.decision = "WORK" /\ response.confidence = 95)

\* github.com was classified after a DISTRACTION override was recorded for it
C38_Witness ==
    /\ op = "classify"
    /\ extract_domain(request.url) = "github.com"
    /\ "github.com" \in blocked_sites
    /\ request.kw_distraction = MaxScore
    /\ response.decision = "WORK"


FailingOutcomes == {"exit_nonzero", "oserror"}

\* C39: log_distraction appends the event before the intervention is
\* attempted, and when the agent fails (an unsuccessful result or an
\* exception of run_task) start_intervention returns an error message
\* instead of raising, and the stored sequence is the one the agent call
\* found: the events in the window followed by the new event.
C39_FailingAgentKeepsEvents ==
    [][\A url \in TrackerUrls, title \in Titles, outcome \in FailingOutcomes :
          (LogDistraction(url, title, outcome) /\ calls' = 1)
          => /\ ret' = (IF outcome = "oserror" THEN "Intervention error"
                        ELSE "Intervention failed")
             /\ distractions'
                   = SelectSeq(distractions,
                               LAMBDA d : d.timestamp > time_time - detection_window)
                        \o <<[url |-> url, title |-> title, timestamp |-> time_time]>>]_vars

\* the agent's process could not be started when the third event in the
\* window was logged
C39_Witness ==
    /\ op = "log_distraction"
    /\ calls = 1
    /\ ret = "Intervention error"
    /\ Len(distractions) = 3
    /\ distractions[3].timestamp = time_time


\* C40: after every handled gesture the history holds at most
\* history_max_length entries; when a sequence triggers, the history is empty
\* afterwards and at least sequence_cooldown seconds have passed since the
\* trigger before it, or since construction when it is the first; the time
\* of the last trigger changes with a trigger only.
C40_SequenceCooldown ==
    [][\A gesture \in Gestures :
          HandleGesture(gesture) =>
             /\ Len(gesture_history') <= history_max_length
             /\ url_analysis_calls' <= 1
             /\ url_analysis_calls' = 1 =>
                   /\ gesture_history' = <<>>
                   /\ time_time - last_sequence_trigger_time >= sequence_cooldown
                   /\ last_sequence_trigger_time' = time_time
             /\ url_analysis_calls' = 0 =>
                   last_sequence_trigger_time' = last_sequence_trigger_time]_vars

\* a second sequence has triggered, sequence_cooldown seconds after the first
C40_Witness ==
    /\ url_analysis_calls = 1
    /\ gesture_history = <<>>
    /\ last_sequence_trigger_time = time_time
    /\ time_time = 2 * sequence_cooldown
    /\ latest_gesture = "open"

============================================================================
